---------------------------- MODULE Spec2Model ----------------------------
(***************************************************************************)
(* Model of backend/app.py: the Flask aggregation endpoints, their         *)
(* module-level result caches and lazily loaded tables, and the SQL of     *)
(* the flow-map aggregation (precomputed and reconstructed path).          *)
(*                                                                         *)
(* Timestamps are whole hours since midnight of day 0 of the dataset;      *)
(* coordinates are integers; a SQL result set is a set of rows (row order  *)
(* is not modelled); AVG is kept as the pair <<sum, count>>.               *)
(***************************************************************************)
EXTENDS Integers, Sequences, FiniteSets, TLC

VARIABLES
    \* ---- the record source (read-only while the server runs)
    traveljournal,            \* rows of table traveljournal
    participantstatuslogs,    \* located rows of table participantstatuslogs
    mv,                       \* state of the trip_coordinates materialized view
    statuslog_counts,         \* rows of participantstatuslogs per participantid
    participant_rows,         \* result list of the participant-location query
    financial_rows,           \* result of the financialjournal query
    \* ---- the flow-aggregation harness (specification FlowSpec)
    flowParams,               \* parameters of the last flow aggregation run
    flowOut,                  \* its output: [flows, cells], or NoOutput
    \* ---- the area-characteristics harness (specification AreaSpec)
    areaParams,               \* parameters of the last area aggregation run
    areaOut,                  \* its output
    \* ---- single calls of the hour filters, the home lookups and the
    \* ---- theme_river table (specification CallSpec)
    call,                     \* the call made: function and arguments
    ret,                      \* what it returned
    \* ---- the server (specification Spec)
    temporal_patterns_cache,  \* _temporal_patterns_cache
    flow_map_cache,           \* _flow_map_cache
    theme_river_cache,        \* _theme_river_cache
    traffic_sql_cache,        \* _traffic_sql_cache
    globals,                  \* the lazily initialised module globals
    checked_out,              \* connections taken from the pool, not returned
    conn,                     \* per thread: the handler holds a connection
    pc,                       \* per thread: position in the handler
    req,                      \* per thread: the request being served
    pos,                      \* per thread: index of the next step of its plan
    resp,                     \* per thread: the response body
    failed,                   \* per thread: the query that raised, or "none"
    hit,                      \* per thread: answered from the cache
    wrote,                    \* per thread: stored an entry in a result cache
    issued,                   \* per thread: issued a record-source query
    later,                    \* per thread: began after an equal request succeeded
    \* ---- history
    firstOK,                  \* first successful response per <<kind, key>>
    stores,                   \* number of stores per <<kind, key>>
    loads,                    \* number of successful loads per global
    overlap,                  \* two requests were in flight at once
    started                   \* number of requests begun

dataVars == <<traveljournal, participantstatuslogs, mv, statuslog_counts,
              participant_rows, financial_rows>>
flowVars == <<flowParams, flowOut>>
areaVars == <<areaParams, areaOut>>
callVars == <<call, ret>>
cacheVars == <<temporal_patterns_cache, flow_map_cache, theme_river_cache,
               traffic_sql_cache>>
poolVars == <<checked_out, conn>>
threadVars == <<pc, req, pos, resp, failed, hit, wrote, issued, later>>
histVars == <<firstOK, stores, loads, overlap, started>>
serverVars == <<cacheVars, globals, poolVars, threadVars, histVars>>
vars == <<dataVars, flowVars, areaVars, callVars, serverVars>>

-----------------------------------------------------------------------------
(* Bounds of the model *)

MaxTrips == 3        \* rows of traveljournal in FlowSpec
MaxRequests == 2     \* requests begun in one behaviour of Spec
FirstDow == 5        \* day of week of day 0 of the dataset (5 = Friday)

-----------------------------------------------------------------------------
(* Time and SQL scalar functions *)

HoursPerDay == 24
DaysPerWeek == 7
MinutesPerHour == 60

NULL == <<>>
NoDate == -1

\* EXTRACT(HOUR FROM ts)::int
Hour(ts) == ts % HoursPerDay
\* ts::date, as a day number
Date(ts) == ts \div HoursPerDay
\* EXTRACT(DOW FROM ts)::int, 0 = Sunday
Dow(ts) == (FirstDow + Date(ts)) % DaysPerWeek

\* SUM(column) over a set of rows
RECURSIVE SumField(_, _)
SumField(S, f) ==
    IF S = {} THEN 0
    ELSE LET x == CHOOSE y \in S : TRUE IN x[f] + SumField(S \ {x}, f)

\* max(column) over a non-empty set of rows
RECURSIVE MaxField(_, _)
MaxField(S, f) ==
    LET x == CHOOSE y \in S : TRUE
        rest == S \ {x}
    IN IF rest = {} THEN x[f]
       ELSE LET m == MaxField(rest, f) IN IF x[f] > m THEN x[f] ELSE m

-----------------------------------------------------------------------------
(* flow_map: filters *)

\* day_clause, lines 1539-1545
DayClause(day_type, day_of_week) ==
    IF day_type = "weekday" THEN day_of_week >= 1 /\ day_of_week <= 5
    ELSE IF day_type = "weekend" THEN day_of_week \in {0, 6}
    ELSE TRUE

\* purpose_clause, lines 1547-1551
PurposeClause(purpose, p) ==
    IF purpose # "all" THEN p = purpose ELSE TRUE

\* date_clause of the materialized-view queries, lines 1553-1563
DateClause(mv_has_date, start_date, end_date, trip_date) ==
    IF mv_has_date
    THEN /\ (start_date # NoDate => trip_date >= start_date)
         /\ (end_date # NoDate => trip_date <= end_date)
    ELSE TRUE

\* date_clause_tj of the fallback queries, lines 1658-1662
DateClauseTJ(start_date, end_date, travelstarttime) ==
    /\ (start_date # NoDate => Date(travelstarttime) >= start_date)
    /\ (end_date # NoDate => Date(travelstarttime) <= end_date)

-----------------------------------------------------------------------------
(* flow_map: trip coordinates *)

\* a lookup that skips a sample at the start time itself
StartLocStrict(psl, t) ==
    LET cand == {s \in psl : /\ s.participantid = t.participantid
                             /\ s.timestamp < t.travelstarttime
                             /\ s.currentlocation # NULL}
    IN IF cand = {} THEN NULL
       ELSE (CHOOSE s \in cand :
                \A u \in cand : u.timestamp <= s.timestamp).currentlocation

\* LEFT JOIN LATERAL start_loc, lines 1677-1685
StartLoc(psl, t) ==
    LET cand == {s \in psl : /\ s.participantid = t.participantid
                             /\ s.timestamp <= t.travelstarttime
                             /\ s.currentlocation # NULL}
    IN IF cand = {} THEN NULL
       ELSE (CHOOSE s \in cand :
                \A u \in cand : u.timestamp <= s.timestamp).currentlocation

\* LEFT JOIN LATERAL end_loc, lines 1686-1694
EndLoc(psl, t) ==
    LET cand == {s \in psl : /\ s.participantid = t.participantid
                             /\ s.timestamp >= t.travelendtime
                             /\ s.currentlocation # NULL}
    IN IF cand = {} THEN NULL
       ELSE (CHOOSE s \in cand :
                \A u \in cand : u.timestamp >= s.timestamp).currentlocation

\* one row of CTE trip_coords, lines 1665-1676
TripCoordsRow(psl, t) ==
    [travelid |-> t.travelid,
     purpose |-> t.purpose,
     hour_bucket |-> Hour(t.travelstarttime),
     day_of_week |-> Dow(t.travelstarttime),
     trip_date |-> Date(t.travelstarttime),
     start |-> StartLoc(psl, t),
     end |-> EndLoc(psl, t),
     travel_time_minutes |->
         (t.travelendtime - t.travelstarttime) * MinutesPerHour]

\* The rows of materialized view trip_coordinates.  The view is created
\* outside app.py; it holds, for every trip, the columns the queries of
\* flow_map read, derived from the same trips and position samples.
trip_coordinates(tj, psl) == {TripCoordsRow(psl, t) : t \in tj}

\* FROM trip_coordinates WHERE {day_clause} {purpose_clause} {date_clause},
\* lines 1581-1586, 1620-1622, 1633-1635
RowsPrecomputed(p, mv_has_date, tj, psl) ==
    {r \in trip_coordinates(tj, psl) :
        /\ DayClause(p.day_type, r.day_of_week)
        /\ PurposeClause(p.purpose, r.purpose)
        /\ DateClause(mv_has_date, p.start_date, p.end_date, r.trip_date)}

\* CTE trip_coords of the fallback, lines 1665-1696 and 1740-1767
RowsReconstructed(p, tj, psl) ==
    {TripCoordsRow(psl, t) : t \in
        {t \in tj :
            /\ DayClause(p.day_type, Dow(t.travelstarttime))
            /\ PurposeClause(p.purpose, t.purpose)
            /\ DateClauseTJ(p.start_date, p.end_date, t.travelstarttime)}}

-----------------------------------------------------------------------------
(* flow_map: gridding and aggregation *)

\* FLOOR(x / grid_size)::int for both coordinates
CellOf(loc, grid_size) == <<loc[1] \div grid_size, loc[2] \div grid_size>>

\* FLOOR(x / grid_size) * grid_size + grid_size/2 (integer division of the
\* two interpolated integers), lines 1576-1579
Centroid(cell, grid_size) ==
    <<cell[1] * grid_size + (grid_size \div 2),
      cell[2] * grid_size + (grid_size \div 2)>>

\* a test that compares the two positions instead of their cells
SamePoint(r, grid_size) == r.start = r.end

\* the same-cell test of gridded_trips, lines 1584-1585 and 1713-1714
SameCell(r, grid_size) ==
    /\ CellOf(r.start, grid_size)[1] = CellOf(r.end, grid_size)[1]
    /\ CellOf(r.start, grid_size)[2] = CellOf(r.end, grid_size)[2]

\* CTE gridded_trips, lines 1568-1587 and 1697-1715
GriddedTrips(rows, grid_size) ==
    {r \in rows : /\ r.start # NULL
                  /\ r.end # NULL
                  /\ ~SameCell(r, grid_size)}

\* GROUP BY key of the flows query, lines 1606 and 1734
FlowKey(r, grid_size) ==
    <<r.hour_bucket, CellOf(r.start, grid_size), CellOf(r.end, grid_size)>>

\* a filter that keeps the buckets of exactly min_trips trips
HavingExactly(n, min_trips) == n = min_trips

\* a strict threshold
HavingMore(n, min_trips) == n > min_trips

\* HAVING COUNT >= min_trips, lines 1607 and 1735
Having(n, min_trips) == n >= min_trips

CountPurpose(grp, purpose) == Cardinality({r \in grp : r.purpose = purpose})

\* one output row of the flows query, lines 1588-1604 and 1716-1732
FlowRow(k, grp, grid_size) ==
    [hour_bucket |-> k[1],
     start_cell_x |-> k[2][1],
     start_cell_y |-> k[2][2],
     end_cell_x |-> k[3][1],
     end_cell_y |-> k[3][2],
     start_x |-> Centroid(k[2], grid_size)[1],
     start_y |-> Centroid(k[2], grid_size)[2],
     end_x |-> Centroid(k[3], grid_size)[1],
     end_y |-> Centroid(k[3], grid_size)[2],
     trips |-> Cardinality(grp),
     avg_travel_time |-> <<SumField(grp, "travel_time_minutes"), Cardinality(grp)>>,
     commute_trips |-> CountPurpose(grp, "Work/Home Commute"),
     eating_trips |-> CountPurpose(grp, "Eating"),
     recreation_trips |-> CountPurpose(grp, "Recreation (Social Gathering)"),
     home_trips |-> CountPurpose(grp, "Going Back to Home"),
     from_restaurant_trips |-> CountPurpose(grp, "Coming Back From Restaurant")]

\* flows_query over the filtered rows, lines 1567-1609 and 1664-1737
FlowsQuery(rows, grid_size, min_trips) ==
    LET gridded == GriddedTrips(rows, grid_size)
        keys == {FlowKey(r, grid_size) : r \in gridded}
        grp(k) == {r \in gridded : FlowKey(r, grid_size) = k}
    IN {FlowRow(k, grp(k), grid_size) :
            k \in {k \in keys : Having(Cardinality(grp(k)), min_trips)}}

\* an inner join of origins and destinations
CellsQueryInner(rows, grid_size) ==
    LET orig == {r \in rows : r.start # NULL}
        dest == {r \in rows : r.end # NULL}
        OKey(r) == <<r.hour_bucket, CellOf(r.start, grid_size)>>
        DKey(r) == <<r.hour_bucket, CellOf(r.end, grid_size)>>
        departures(k) == Cardinality({r \in orig : OKey(r) = k})
        arrivals(k) == Cardinality({r \in dest : DKey(r) = k})
    IN {[hour_bucket |-> k[1],
         cell_x |-> k[2][1],
         cell_y |-> k[2][2],
         x |-> Centroid(k[2], grid_size)[1],
         y |-> Centroid(k[2], grid_size)[2],
         departures |-> departures(k),
         arrivals |-> arrivals(k),
         net_flow |-> arrivals(k) - departures(k)] :
            k \in {OKey(r) : r \in orig} \cap {DKey(r) : r \in dest}}

\* a cell summary that, like the flows, leaves out the same-cell trips
CellsQueryCrossCell(rows, grid_size) ==
    LET cross == {r \in rows :
                     \/ r.start = NULL
                     \/ r.end = NULL
                     \/ CellOf(r.start, grid_size) # CellOf(r.end, grid_size)}
        orig == {r \in cross : r.start # NULL}
        dest == {r \in cross : r.end # NULL}
        OKey(r) == <<r.hour_bucket, CellOf(r.start, grid_size)>>
        DKey(r) == <<r.hour_bucket, CellOf(r.end, grid_size)>>
        departures(k) == Cardinality({r \in orig : OKey(r) = k})
        arrivals(k) == Cardinality({r \in dest : DKey(r) = k})
    IN {[hour_bucket |-> k[1],
         cell_x |-> k[2][1],
         cell_y |-> k[2][2],
         x |-> Centroid(k[2], grid_size)[1],
         y |-> Centroid(k[2], grid_size)[2],
         departures |-> departures(k),
         arrivals |-> arrivals(k),
         net_flow |-> arrivals(k) - departures(k)] :
            k \in {OKey(r) : r \in orig} \cup {DKey(r) : r \in dest}}

\* cells_query over the filtered rows, lines 1611-1653 and 1768-1807
CellsQuery(rows, grid_size) ==
    LET orig == {r \in rows : r.start # NULL}
        dest == {r \in rows : r.end # NULL}
        OKey(r) == <<r.hour_bucket, CellOf(r.start, grid_size)>>
        DKey(r) == <<r.hour_bucket, CellOf(r.end, grid_size)>>
        okeys == {OKey(r) : r \in orig}
        dkeys == {DKey(r) : r \in dest}
        departures(k) == Cardinality({r \in orig : OKey(r) = k})
        arrivals(k) == Cardinality({r \in dest : DKey(r) = k})
    IN {[hour_bucket |-> k[1],
         cell_x |-> k[2][1],
         cell_y |-> k[2][2],
         x |-> Centroid(k[2], grid_size)[1],
         y |-> Centroid(k[2], grid_size)[2],
         departures |-> departures(k),
         arrivals |-> arrivals(k),
         net_flow |-> arrivals(k) - departures(k)] : k \in okeys \cup dkeys}

\* the rows both queries of one request read: the branch on mv_exists and
\* mv_has_date, lines 1510-1566 and 1654-1662
FlowRows(p, mvstate, tj, psl) ==
    IF mvstate # "absent"
    THEN RowsPrecomputed(p, mvstate = "with_date", tj, psl)
    ELSE RowsReconstructed(p, tj, psl)

\* flows and cells of one flow_map request, lines 1809-1840
FlowAggregation(p, mvstate, tj, psl) ==
    LET rows == FlowRows(p, mvstate, tj, psl)
    IN [flows |-> FlowsQuery(rows, p.grid_size, p.min_trips),
        cells |-> CellsQuery(rows, p.grid_size)]

-----------------------------------------------------------------------------
(* The record sources the specifications draw from *)

Purposes == {"Eating", "Work/Home Commute"}

\* The trips a dataset is made of: participant 1 travels at 8h and at 9h of
\* day 0 and at 8h of day 1, participant 2 at 8h of day 0.
TripShapes ==
    {[participantid |-> 1, travelstarttime |-> 8, travelendtime |-> 9],
     [participantid |-> 1, travelstarttime |-> 9, travelendtime |-> 10],
     [participantid |-> 1, travelstarttime |-> 32, travelendtime |-> 33],
     [participantid |-> 2, travelstarttime |-> 8, travelendtime |-> 9]}

Trip(id, shape, purpose) ==
    [travelid |-> id,
     participantid |-> shape.participantid,
     travelstarttime |-> shape.travelstarttime,
     travelendtime |-> shape.travelendtime,
     purpose |-> purpose]

Sample(pid, ts, loc) ==
    [participantid |-> pid, timestamp |-> ts, currentlocation |-> loc]

\* Every trip has a located sample at or before its start and at or after
\* its end.
LogsComplete ==
    {Sample(1, 8, <<0, 0>>), Sample(1, 9, <<2, 1>>), Sample(1, 10, <<0, 3>>),
     Sample(1, 32, <<0, 0>>), Sample(1, 33, <<0, 1>>),
     Sample(2, 7, <<1, 1>>), Sample(2, 9, <<3, 0>>)}

\* Participant 1 has no sample after hour 32, participant 2's sample at hour
\* 9 has no location and its first sample is after hour 8.
LogsSparse ==
    {Sample(1, 7, <<0, 0>>), Sample(1, 9, <<2, 1>>), Sample(1, 11, <<0, 3>>),
     Sample(1, 32, <<0, 0>>),
     Sample(2, 9, NULL), Sample(2, 10, <<3, 0>>)}

LogTables == {LogsComplete, LogsSparse}

\* traveljournal tables of n rows, travelid 1..n; rows are listed in one
\* fixed order of their attributes, ids being arbitrary
AttrIndex(t) ==
    (CASE t.travelstarttime = 8 /\ t.participantid = 1 -> 0
       [] t.travelstarttime = 9 -> 2
       [] t.travelstarttime = 32 -> 4
       [] OTHER -> 6) + (IF t.purpose = "Eating" THEN 0 ELSE 1)

TripTables ==
    UNION {
        {{[f[i] EXCEPT !.travelid = i] : i \in 1..n} : f \in
            {g \in [1..n -> {Trip(0, sh, pu) : sh \in TripShapes, pu \in Purposes}] :
                \A i \in 1..(n - 1) : AttrIndex(g[i]) <= AttrIndex(g[i + 1])}}
        : n \in 0..MaxTrips}

MVStates == {"absent", "without_date", "with_date"}

GridSizes == {1, 2}
Dates == {NoDate, 0, 1}

\* the filter combinations FlowSpec runs: each filter alone, and together
FlowFilters ==
    {<<"all", "all", 0, 1>>, <<"weekday", "all", 0, 1>>,
     <<"weekend", "all", 0, 1>>, <<"all", "Eating", 0, 1>>,
     <<"all", "all", 0, 0>>, <<"all", "all", 1, 1>>,
     <<"all", "all", NoDate, 0>>, <<"all", "all", 1, NoDate>>,
     <<"weekday", "Eating", 0, 0>>}

FlowParam(g, f, m) ==
    [grid_size |-> g, day_type |-> f[1], purpose |-> f[2], min_trips |-> m,
     start_date |-> f[3], end_date |-> f[4]]

FlowParamSet ==
    {FlowParam(g, f, m) : g \in GridSizes, f \in FlowFilters,
                          m \in 0..(MaxTrips + 1)}

-----------------------------------------------------------------------------
(* The server: requests, plans of the handlers, results *)

Threads == {"t1", "t2"}

\* a new request is served by the first thread that is free
Earlier(t) == IF t = "t2" THEN {"t1"} ELSE {}

None == <<>>

OutlierThreshold == 2000

\* row count of participantstatuslogs per participant over the whole table
StatusLogCount == (1 :> 2500) @@ (2 :> 1999)

\* request.args.get(name, 'false').lower() == 'true', lines 313, 1052,
\* 1901, 1902
ParseBool(s) == s = "true"

\* SQL NULL in column participantid
NullId == 0

\* a threshold that also takes a participant with exactly 2000 rows
HavingAtMost(n) == n <= OutlierThreshold

\* HAVING count < 2000, line 74
HavingFewer(n) == n < OutlierThreshold

\* the SELECT of get_outlier_participants over the per-participant row
\* counts of participantstatuslogs, lines 69-75
OutlierRows(counts) ==
    {pid \in DOMAIN counts : pid # NullId /\ HavingFewer(counts[pid])}

\* set(row['participantid'] ... if row['participantid'] is not None),
\* lines 77-80
OutlierParticipants(counts) == {pid \in OutlierRows(counts) : pid # NullId}

\* the outlier set of the dataset the server runs on
OutlierQuery == OutlierParticipants(StatusLogCount)

-----------------------------------------------------------------------------
(* area_characteristics: the Python aggregation of demographics and        *)
(* financial data.  A quotient a / b is kept as the pair <<a, b>>.          *)

\* Python floor division x // grid_size
PyFloorDiv(a, b) == IF b > 0 THEN a \div b ELSE (0 - a) \div (0 - b)

\* a quotient that forgets the divisor
PyDivByOne(a, b) == <<a, 1>>

\* a / b; raises ZeroDivisionError when b is 0
PyDiv(a, b) == IF b = 0 THEN <<"ZeroDivisionError">> ELSE <<a, b>>

\* a key computed by rounding the quotient toward zero
PyTruncCell(p, grid_size) ==
    <<IF p.x < 0 THEN 0 - PyFloorDiv(0 - p.x, grid_size)
                 ELSE PyFloorDiv(p.x, grid_size),
      IF p.y < 0 THEN 0 - PyFloorDiv(0 - p.y, grid_size)
                 ELSE PyFloorDiv(p.y, grid_size)>>

\* key = (int(p['x'] // grid_size), int(p['y'] // grid_size)), lines 359-361
\* and 398-400; the floor division is integral, int() keeps its value
PyCell(p, grid_size) ==
    <<PyFloorDiv(p.x, grid_size), PyFloorDiv(p.y, grid_size)>>

\* a filter that removes nobody
FilterNobody(data, exclude_outliers, outlier_pids) == data

\* "if exclude_outliers and outlier_pids:" builds a new list, lines 348-353
FilterOutliers(data, exclude_outliers, outlier_pids) ==
    IF exclude_outliers /\ outlier_pids # {}
    THEN SelectSeq(data, LAMBDA p : p.participantid \notin outlier_pids)
    ELSE data

\* sum(p[f] for p in participants)
RECURSIVE SumSeq(_, _)
SumSeq(seq, f) ==
    IF seq = <<>> THEN 0 ELSE Head(seq)[f] + SumSeq(Tail(seq), f)

\* sum(1 for p in participants if p[f] == v)
CountSeq(seq, f, v) == Len(SelectSeq(seq, LAMBDA p : p[f] = v))

\* a grouping by grid_y alone
CellParticipantsByRow(data, grid_size, key) ==
    SelectSeq(data, LAMBDA p : PyCell(p, grid_size)[2] = key[2])

\* grid_data[key]['participants'], lines 358-369
CellParticipants(data, grid_size, key) ==
    SelectSeq(data, LAMBDA p : PyCell(p, grid_size) = key)

\* one entry of demographics, lines 372-389
DemographicsEntry(key, participants) ==
    LET n == Len(participants)
    IN [grid_x |-> key[1],
        grid_y |-> key[2],
        population |-> n,
        avg_age |-> PyDiv(SumSeq(participants, "age"), n),
        avg_household_size |-> PyDiv(SumSeq(participants, "householdsize"), n),
        avg_joviality |-> PyDiv(SumSeq(participants, "joviality"), n),
        pct_with_kids |-> PyDiv(CountSeq(participants, "havekids", TRUE), n),
        pct_graduate |->
            PyDiv(CountSeq(participants, "educationlevel", "Graduate"), n),
        pct_bachelors |->
            PyDiv(CountSeq(participants, "educationlevel", "Bachelors"), n),
        pct_highschool |->
            PyDiv(CountSeq(participants, "educationlevel",
                           "HighSchoolOrCollege"), n),
        pct_low_education |->
            PyDiv(CountSeq(participants, "educationlevel", "Low"), n),
        cell_x |-> participants[1].x,
        cell_y |-> participants[1].y]

\* results['demographics'], lines 355-391; the entries have distinct keys,
\* so the sorted list is given by its set of entries
Demographics(participant_data, grid_size) ==
    {DemographicsEntry(key, CellParticipants(participant_data, grid_size, key)) :
        key \in {PyCell(participant_data[i], grid_size) :
                    i \in DOMAIN participant_data}}

\* participant_grid, lines 396-401: a later row of a participant overwrites
ParticipantGrid(participant_data, grid_size) ==
    [pid \in {participant_data[i].participantid : i \in DOMAIN participant_data} |->
        LET last == CHOOSE i \in DOMAIN participant_data :
                       /\ participant_data[i].participantid = pid
                       /\ \A j \in DOMAIN participant_data :
                             participant_data[j].participantid = pid => j <= i
        IN PyCell(participant_data[last], grid_size)]

\* one entry of financial, lines 436-443; n = len(data['wages']) is the
\* number of financial rows appended for the cell
FinancialEntry(key, rows) ==
    LET n == Cardinality(rows)
    IN [grid_x |-> key[1],
        grid_y |-> key[2],
        avg_income |->
            IF n > 0 THEN PyDiv(SumField(rows, "total_wage"), n) ELSE <<0, 1>>,
        avg_food_spending |->
            IF n > 0 THEN PyDiv(SumField(rows, "total_food"), n) ELSE <<0, 1>>,
        avg_recreation_spending |->
            IF n > 0 THEN PyDiv(SumField(rows, "total_recreation"), n)
            ELSE <<0, 1>>,
        avg_shelter_spending |->
            IF n > 0 THEN PyDiv(SumField(rows, "total_shelter"), n)
            ELSE <<0, 1>>]

\* results['financial'], lines 393-445: rows of participants without a
\* home in participant_grid are skipped
Financial(participant_data, grid_size, fin) ==
    LET grid == ParticipantGrid(participant_data, grid_size)
        kept == {r \in fin : r.participantid \in DOMAIN grid}
        rowsOf(key) == {r \in kept : grid[r.participantid] = key}
    IN {FinancialEntry(key, rowsOf(key)) :
           key \in {grid[r.participantid] : r \in kept}}

\* area_characteristics, lines 315-445: the parts of results computed from
\* the participant table
AreaResult(p, data, counts, fin) ==
    LET exclude_outliers == ParseBool(p.exclude_outliers)
        outlier_pids ==
            IF exclude_outliers THEN OutlierParticipants(counts) ELSE {}
        participant_data == FilterOutliers(data, exclude_outliers, outlier_pids)
    IN [exclude_outliers |-> exclude_outliers,
        grid_size |-> p.grid_size,
        sections |-> {"demographics", "financial"}
                       \cap (IF p.metric = "all"
                             THEN {"demographics", "financial"}
                             ELSE {p.metric}),
        demographics |->
            IF p.metric \in {"demographics", "all"}
            THEN Demographics(participant_data, p.grid_size) ELSE {},
        financial |->
            IF p.metric \in {"financial", "all"}
            THEN Financial(participant_data, p.grid_size, fin) ELSE {}]

-----------------------------------------------------------------------------
(* The hour filters of time_period, the home lookups, the theme_river table *)

Hours == 0..(HoursPerDay - 1)

\* time_clause of get_traffic_aggregation_sql, lines 198-209
TrafficSqlHours(time_period) ==
    CASE time_period = "morning" -> {h \in Hours : h >= 6 /\ h < 10}
      [] time_period = "midday" -> {h \in Hours : h >= 10 /\ h < 14}
      [] time_period = "afternoon" -> {h \in Hours : h >= 14 /\ h < 18}
      [] time_period = "evening" -> {h \in Hours : h >= 18 /\ h < 22}
      [] time_period = "night" -> {h \in Hours : h >= 22 \/ h < 6}
      [] OTHER -> Hours

\* time_clause of traffic_patterns, lines 532-541: no branch for midday
TrafficPatternsHours(time_period) ==
    CASE time_period = "morning" -> {h \in Hours : h >= 6 /\ h < 12}
      [] time_period = "afternoon" -> {h \in Hours : h >= 12 /\ h < 18}
      [] time_period = "evening" -> {h \in Hours : h >= 18 /\ h < 24}
      [] time_period = "night" -> {h \in Hours : h >= 0 /\ h < 6}
      [] OTHER -> Hours

\* the FILTER clauses of the activity query of temporal_patterns, lines
\* 1123-1127 (BETWEEN includes both ends); total_checkins counts every hour
TemporalBucketHours(bucket) ==
    CASE bucket = "morning" -> {h \in Hours : h >= 6 /\ h <= 9}
      [] bucket = "midday" -> {h \in Hours : h >= 10 /\ h <= 14}
      [] bucket = "afternoon" -> {h \in Hours : h >= 15 /\ h <= 18}
      [] bucket = "evening" -> {h \in Hours : h >= 19 /\ h <= 23}
      [] bucket = "night" -> {h \in Hours : h >= 0 /\ h <= 5}
      [] OTHER -> Hours

\* the apartmentid values "WHERE participantid = pid AND apartmentid IS NOT
\* NULL LIMIT 1" may return: the query has no ORDER BY, so any matching
\* row; lines 144-150 and 868-878
HomeCandidates(samples, pid) ==
    {r.apartmentid : r \in {q \in samples :
        q.participantid = pid /\ q.apartmentid # NullId}}

\* the outcomes of one such lookup; NullId when no row matches
HomeLookup(samples, pid) ==
    IF HomeCandidates(samples, pid) = {} THEN {NullId}
    ELSE HomeCandidates(samples, pid)

\* sorted(...) of a set of dates; the ISO date strings sort as the dates
RECURSIVE SortedSeq(_)
SortedSeq(S) ==
    IF S = {} THEN <<>>
    ELSE LET m == CHOOSE x \in S : \A y \in S : x <= y
         IN <<m>> \o SortedSeq(S \ {m})

\* a share that is left a fraction of 1
NormalizedFraction(value, total) == <<value, total>>

\* (value / total) * 100, line 2071, as the pair <<numerator, divisor>>
Normalized(value, total) == <<value * 100, total>>

\* periods, categories and data of theme_river, lines 2046-2082, from the
\* rows <<period, category, value>> of the query (one row per period and
\* category, no NULL category); every value is a pair <<numerator, divisor>>
ThemeTable(data, normalize) ==
    LET categories == {r.category : r \in data}
        rowsOf(p) == {r \in data : r.period = p}
        total(p) == SumField(rowsOf(p), "value")
        entry(p, c) ==
            IF \A r \in rowsOf(p) : r.category # c THEN <<0, 1>>
            ELSE LET v == (CHOOSE r \in rowsOf(p) : r.category = c).value
                 IN IF normalize /\ total(p) > 0
                    THEN Normalized(v, total(p)) ELSE <<v, 1>>
        sorted_periods == SortedSeq({r.period : r \in data})
    IN [periods |-> sorted_periods,
        categories |-> categories,
        data |-> [i \in DOMAIN sorted_periods |->
                    [period |-> sorted_periods[i],
                     values |-> [c \in categories |->
                                    entry(sorted_periods[i], c)]]]]

Request(kind, p) == [kind |-> kind, p |-> p]

\* parameter tuples, in the order of each handler's cache_key
TemporalParams ==
    {<<"weekly", "all", "all", "true">>, <<"daily", "activity", "Pub", "false">>}
ThemeParams ==
    {<<"weekly", "mode", "false", "true">>,
     <<"weekly", "colour", "false", "false">>}
FlowMapParams ==
    {<<1, "all", "all", 1, NoDate, NoDate>>, <<1, "all", "all", 1, 0, 0>>,
     <<1, "all", "all", 2, 0, 0>>}
TrafficSqlParams ==
    {<<1, "morning", "all">>}
\* <<grid_size, metric, exclude_outliers>>
AreaParams == {<<1, "all", "true">>}
\* <<time_period, day_type, sample_rate, start_date, end_date>>
TrafficPatternsParams == {<<"all", "all", 100, NoDate, NoDate>>}
\* <<participant_ids, date, month, day_type>>
RoutinesParams == {<<"", "typical", "all", "all">>}

Requests ==
    {Request("temporal_patterns", p) : p \in TemporalParams}
    \cup {Request("theme_river", p) : p \in ThemeParams}
    \cup {Request("flow_map", p) : p \in FlowMapParams}
    \cup {Request("get_traffic_aggregation_sql", p) : p \in TrafficSqlParams}
    \cup {Request("area_characteristics", p) : p \in AreaParams}
    \cup {Request("traffic_patterns", p) : p \in TrafficPatternsParams}
    \cup {Request("participant_routines", p) : p \in RoutinesParams}
    \cup {Request("get_venue_locations", <<>>)}

\* requests with a grid_size below 1 and with a participant_ids value
EdgeFlowMapParams == {<<-1, "all", "all", 1, 0, 0>>}
EdgeAreaParams == {<<-500, "all", "false">>}
EdgeRoutinesParams ==
    {<<ids, "typical", "all", "all">> : ids \in {"1", "1,2", "1,2,3", "1,x", ","}}

EdgeRequests ==
    {Request("flow_map", p) : p \in EdgeFlowMapParams}
    \cup {Request("area_characteristics", p) : p \in EdgeAreaParams}
    \cup {Request("participant_routines", p) : p \in EdgeRoutinesParams}

CachedKinds ==
    {"temporal_patterns", "theme_river", "flow_map",
     "get_traffic_aggregation_sql"}

\* cache_key of the four cached aggregations, lines 190, 1054, 1420, 1904
CacheKey(r) ==
    CASE r.kind = "temporal_patterns" -> <<r.p[1], r.p[2], r.p[3], r.p[4]>>
      [] r.kind = "theme_river" -> <<r.p[1], r.p[2], r.p[3], r.p[4]>>
      [] r.kind = "flow_map" ->
            <<r.p[1], r.p[2], r.p[3], r.p[4], r.p[5], r.p[6]>>
      [] r.kind = "get_traffic_aggregation_sql" -> <<r.p[1], r.p[2], r.p[3]>>

\* the dictionary of a cached aggregation
CacheOf(kind) ==
    CASE kind = "temporal_patterns" -> temporal_patterns_cache
      [] kind = "theme_river" -> theme_river_cache
      [] kind = "flow_map" -> flow_map_cache
      [] kind = "get_traffic_aggregation_sql" -> traffic_sql_cache

\* a lookup that never finds the key
CacheLookupNever(cache, key) == FALSE

\* "cache_key in cache", lines 191, 1055, 1421, 1905
CacheLookup(cache, key) == key \in DOMAIN cache

\* a store that rebuilds the dictionary with the new entry alone
PutAlone(cache, key, v) == [k \in {key} |-> v]

\* "cache[cache_key] = results", lines 263, 1239, 1866, 2132
Put(cache, key, v) ==
    [k \in DOMAIN cache \cup {key} |-> IF k = key THEN v ELSE cache[k]]

\* a flow_map without a metadata-only path
FastPathNever(r) == FALSE

\* "if not start_date and not end_date", line 1455
FastPath(r) == r.kind = "flow_map" /\ r.p[5] = NoDate /\ r.p[6] = NoDate

FlowArgs(p) ==
    [grid_size |-> p[1], day_type |-> p[2], purpose |-> p[3],
     min_trips |-> p[4], start_date |-> p[5], end_date |-> p[6]]

\* "if outlier_pids:" builds the NOT IN filter, lines 1067-1073, 1915-1919
OutlierFilter(exclude_outliers) ==
    IF ParseBool(exclude_outliers) /\ OutlierQuery # {} THEN OutlierQuery ELSE {}

\* results of temporal_patterns, lines 1075-1236; a query result is the
\* term of the filters its SQL text is built from
TemporalResult(p) ==
    [granularity |-> p[1], metric |-> p[2], venue_type |-> p[3],
     exclude_outliers |-> ParseBool(p[4]),
     date_range |-> <<"date_range">>,
     activity |-> IF p[2] \in {"activity", "all"}
                  THEN <<"activity", p[1], p[3], OutlierFilter(p[4])>>
                  ELSE None,
     spending |-> IF p[2] \in {"spending", "all"}
                  THEN <<"spending", p[1], OutlierFilter(p[4])>> ELSE None,
     social |-> IF p[2] \in {"social", "all"}
                THEN <<"social", p[1], OutlierFilter(p[4])>> ELSE None]

\* results of theme_river, lines 1921-2127
ThemeResult(p) ==
    [granularity |-> p[1], dimension |-> p[2],
     normalize |-> ParseBool(p[3]), exclude_outliers |-> ParseBool(p[4]),
     date_range |-> <<"date_range", p[2]>>,
     data |-> <<p[2], p[1], ParseBool(p[3]), OutlierFilter(p[4])>>]

\* traffic_data of get_traffic_aggregation_sql, lines 198-259
TrafficSqlResult(p) == <<"traffic_aggregation", p[1], p[2], p[3]>>

\* available_dates, lines 1440-1450
AvailableDates(tj) ==
    IF tj = {} THEN [min |-> NoDate, max |-> NoDate]
    ELSE [min |-> Date((CHOOSE t \in tj : \A u \in tj :
                          t.travelstarttime <= u.travelstarttime).travelstarttime),
          max |-> Date((CHOOSE t \in tj : \A u \in tj :
                          t.travelstarttime >= u.travelstarttime).travelstarttime)]

\* statistics, lines 1816-1833; avg_trips is the pair <<sum, count>>
FlowStatistics(flows) ==
    IF flows # {}
    THEN [total_flows |-> Cardinality(flows),
          total_trips |-> SumField(flows, "trips"),
          max_trips |-> MaxField(flows, "trips"),
          avg_trips |-> <<SumField(flows, "trips"), Cardinality(flows)>>,
          hours_covered |-> Cardinality({f.hour_bucket : f \in flows})]
    ELSE [total_flows |-> 0, total_trips |-> 0, max_trips |-> 0,
          avg_trips |-> <<0, 1>>, hours_covered |-> 0]

\* results of flow_map on the full path, lines 1429-1450 and 1492-1866
FlowMapResult(p, mvstate, tj, psl) ==
    LET agg == FlowAggregation(FlowArgs(p), mvstate, tj, psl)
    IN [grid_size |-> p[1], day_type |-> p[2], purpose |-> p[3],
        min_trips |-> p[4], start_date |-> p[5], end_date |-> p[6],
        available_dates |-> AvailableDates(tj),
        flows |-> agg.flows,
        statistics |-> FlowStatistics(agg.flows),
        cells |-> agg.cells,
        purposes |-> {<<pu, Cardinality({t \in tj : t.purpose = pu})>> :
                        pu \in {t.purpose : t \in tj}}]

\* results of flow_map on the metadata-only path, lines 1429-1490
FlowMapMetadata(p, tj) ==
    [grid_size |-> p[1], day_type |-> p[2], purpose |-> p[3],
     min_trips |-> p[4], start_date |-> p[5], end_date |-> p[6],
     available_dates |-> AvailableDates(tj),
     flows |-> {},
     statistics |-> [total_flows |-> 0, total_trips |-> 0, max_trips |-> 0],
     cells |-> {},
     buildings |-> {},
     purposes |-> {t.purpose : t \in tj}]

\* the body a request returns when every query succeeds
Result(r) ==
    CASE r.kind = "temporal_patterns" -> TemporalResult(r.p)
      [] r.kind = "theme_river" -> ThemeResult(r.p)
      [] r.kind = "get_traffic_aggregation_sql" -> TrafficSqlResult(r.p)
      [] r.kind = "flow_map" ->
            IF FastPath(r)
            THEN FlowMapMetadata(r.p, traveljournal)
            ELSE FlowMapResult(r.p, mv, traveljournal, participantstatuslogs)
      [] OTHER -> <<r.kind, r.p>>

-----------------------------------------------------------------------------
(* Plans: the steps of each handler that read or write shared state, in    *)
(* program order.  Consecutive queries that only read the record source    *)
(* form one step; any one of them may raise.                               *)

Lazy(what) == [op |-> "lazy", arg |-> what]
Query(qs) == [op |-> "query", arg |-> qs]
Store == [op |-> "store", arg |-> None]
Reply(status) == [op |-> "reply", arg |-> status]

\* get_db_connection: get_connection_pool, then getconn, lines 28-40, 84-88
GetConnection == Lazy("_connection_pool")

\* get_outlier_participants is called when exclude_outliers is set
Outliers(exclude_outliers) ==
    IF ParseBool(exclude_outliers) THEN <<Lazy("_outlier_participants_cache")>> ELSE <<>>

\* temporal_patterns after the cache miss, lines 1059-1244
TemporalPlan(p) ==
    <<GetConnection>> \o Outliers(p[4]) \o
    <<Query({"date_range"}
            \cup (IF p[2] \in {"activity", "all"} THEN {"activity"} ELSE {})
            \cup (IF p[2] \in {"spending", "all"} THEN {"spending"} ELSE {})
            \cup (IF p[2] \in {"social", "all"} THEN {"social"} ELSE {})),
      Store>>

\* theme_river after the cache miss, lines 1909-2137
ThemePlan(p) ==
    <<GetConnection>> \o Outliers(p[4]) \o
    (IF p[2] \in {"mode", "purpose", "spending"}
     THEN <<Query({p[2], "date_range"}), Store>>
     ELSE <<Reply(400)>>)

\* a flow_map that answers 500 when the materialized view does not exist
FlowMapPlanNeedsView(r, mvstate) ==
    <<GetConnection, Query({"available_dates"})>> \o
    (IF FastPath(r)
     THEN <<Query({"bounds", "purposes"}), Reply(200)>>
     ELSE IF mvstate = "absent"
     THEN <<Query({"bounds", "mv_exists"}), Reply(500)>>
     ELSE <<Query({"bounds", "mv_exists", "mv_has_date", "flows", "cells",
                   "buildings", "purposes"}),
            Store>>)

\* flow_map after the cache miss, lines 1425-1871
FlowMapPlan(r, mvstate) ==
    <<GetConnection, Query({"available_dates"})>> \o
    (IF FastPath(r)
     THEN <<Query({"bounds", "purposes"}), Reply(200)>>
     ELSE <<Query({"bounds", "mv_exists"}
                  \cup (IF mvstate # "absent" THEN {"mv_has_date"} ELSE {})
                  \cup {"flows", "cells", "buildings", "purposes"}),
            Store>>)

\* get_traffic_aggregation_sql after the cache miss, lines 195-264
TrafficSqlPlan == <<Query({"traffic_aggregation"}), Store>>

\* area_characteristics, lines 315-499
AreaPlan(p) ==
    <<GetConnection>> \o Outliers(p[3]) \o <<Query({"bounds"})>> \o
    (IF p[2] \in {"demographics", "financial", "all"}
     THEN <<Lazy("_participant_locations_cache")>> ELSE <<>>) \o
    (LET qs == (IF p[2] \in {"financial", "all"} THEN {"financial"} ELSE {})
               \cup (IF p[2] \in {"venues", "all"} THEN {"venues"} ELSE {})
               \cup (IF p[2] \in {"apartments", "all"}
                     THEN {"apartments"} ELSE {})
     IN IF qs = {} THEN <<>> ELSE <<Query(qs)>>) \o
    <<Reply(200)>>

\* traffic_patterns, lines 526-630
TrafficPatternsPlan ==
    <<GetConnection, Query({"locations", "available_dates"}),
      Lazy("_hourly_pattern_cache"), Reply(200)>>

\* participant_routines without participant_ids, lines 660-768
RoutinesPlan ==
    <<GetConnection, Query({"available_months"}), Lazy("_participants_cache"),
      Query({"routine_summaries"}), Reply(200)>>

\* participant_ids_str.split(','), each item stripped
SplitIds(participant_ids_str) ==
    CASE participant_ids_str = "1" -> <<"1">>
      [] participant_ids_str = "1,2" -> <<"1", "2">>
      [] participant_ids_str = "1,2,3" -> <<"1", "2", "3">>
      [] participant_ids_str = "1,x" -> <<"1", "x">>
      [] participant_ids_str = "," -> <<"", "">>
      [] OTHER -> <<participant_ids_str>>

\* int(x) returns for a decimal numeral and raises ValueError otherwise
IsInt(x) == x \in {"1", "2", "3"}

\* "[int(x.strip()) for x in ... if x.strip()]" and the length test, lines
\* 770-781: the error message of the 400 reply, or "" when 1 or 2 IDs parse
IdsError(participant_ids_str) ==
    LET items == SelectSeq(SplitIds(participant_ids_str), LAMBDA x : x # "")
    IN IF \E i \in DOMAIN items : ~IsInt(items[i])
       THEN "Invalid participant IDs"
       ELSE IF Len(items) = 0 \/ Len(items) > 2
       THEN "Please provide 1 or 2 participant IDs"
       ELSE ""

\* participant_routines with participant_ids, lines 660-707 and 770-1024
RoutinesDetailPlan(p) ==
    <<GetConnection, Query({"available_months"}), Lazy("_participants_cache")>>
    \o (IF IdsError(p[1]) # "" THEN <<Reply(400)>>
        ELSE <<Query({"routines"}), Reply(200)>>)

\* get_venue_locations, lines 158-183
VenueLocationsPlan == <<Lazy("_venue_locations_cache"), Reply(200)>>

Plan(r) ==
    CASE r.kind = "temporal_patterns" -> TemporalPlan(r.p)
      [] r.kind = "theme_river" -> ThemePlan(r.p)
      [] r.kind = "flow_map" -> FlowMapPlan(r, mv)
      [] r.kind = "get_traffic_aggregation_sql" -> TrafficSqlPlan
      [] r.kind = "area_characteristics" -> AreaPlan(r.p)
      [] r.kind = "traffic_patterns" -> TrafficPatternsPlan
      [] r.kind = "participant_routines" ->
            IF r.p[1] = "" THEN RoutinesPlan ELSE RoutinesDetailPlan(r.p)
      [] r.kind = "get_venue_locations" -> VenueLocationsPlan

GlobalNames ==
    {"_connection_pool", "_outlier_participants_cache",
     "_participant_locations_cache", "_venue_locations_cache",
     "_hourly_pattern_cache", "_participants_cache"}

\* the object a successful load assigns to a global
Loaded(what) ==
    IF what = "_outlier_participants_cache" THEN <<what, OutlierQuery>>
    ELSE <<what, "rows">>

NoRequest == Request("none", <<>>)
NoResponse == [status |-> 0, body |-> None]
Error500(q) == [status |-> 500, body |-> <<"error", q>>]

\* the JSON body of a reply step
ReplyBody(r, status) ==
    IF status = 200 THEN Result(r)
    ELSE IF r.kind = "participant_routines" THEN <<"error", IdsError(r.p[1])>>
    ELSE <<"error", "Invalid dimension">>

InFlight(t) == pc[t] \in {"run", "load"}

Step(t) == Plan(req[t])[pos[t]]

Key(r) == <<r.kind, r.p>>

Bump(f, k) == [f EXCEPT ![k] = IF @ < 2 THEN @ + 1 ELSE @]

RecordOK(r, body) ==
    IF Key(r) \in DOMAIN firstOK THEN firstOK ELSE firstOK @@ (Key(r) :> body)

-----------------------------------------------------------------------------
(* Initial states *)

\* the traveljournal tables the server specification starts from
ServerTripTables ==
    {{Trip(1, [participantid |-> 1, travelstarttime |-> 8, travelendtime |-> 9],
           "Eating"),
      Trip(2, [participantid |-> 1, travelstarttime |-> 8, travelendtime |-> 9],
           "Work/Home Commute"),
      Trip(3, [participantid |-> 1, travelstarttime |-> 32,
               travelendtime |-> 33], "Eating")}}

CacheKeys ==
    {Key(r) : r \in {q \in Requests \cup EdgeRequests : q.kind \in CachedKinds}}

\* module load: every cache empty, every global None, no request in flight
ServerInit ==
    /\ temporal_patterns_cache = <<>>
    /\ flow_map_cache = <<>>
    /\ theme_river_cache = <<>>
    /\ traffic_sql_cache = <<>>
    /\ globals = [g \in GlobalNames |-> None]
    /\ checked_out = 0
    /\ conn = [t \in Threads |-> FALSE]
    /\ pc = [t \in Threads |-> "idle"]
    /\ req = [t \in Threads |-> NoRequest]
    /\ pos = [t \in Threads |-> 0]
    /\ resp = [t \in Threads |-> NoResponse]
    /\ failed = [t \in Threads |-> "none"]
    /\ hit = [t \in Threads |-> FALSE]
    /\ wrote = [t \in Threads |-> FALSE]
    /\ issued = [t \in Threads |-> FALSE]
    /\ later = [t \in Threads |-> FALSE]
    /\ firstOK = <<>>
    /\ stores = [k \in CacheKeys |-> 0]
    /\ loads = [g \in GlobalNames |-> 0]
    /\ overlap = FALSE
    /\ started = 0

\* the participant-location rows a dataset is made of: homes inside one
\* 500-cell, on its boundary and at negative coordinates
People ==
    <<[participantid |-> 1, x |-> 10, y |-> 10, age |-> 30,
       householdsize |-> 2, havekids |-> TRUE, educationlevel |-> "Graduate",
       joviality |-> 1],
      [participantid |-> 2, x |-> 490, y |-> 490, age |-> 41,
       householdsize |-> 1, havekids |-> FALSE, educationlevel |-> "Bachelors",
       joviality |-> 0],
      [participantid |-> 3, x |-> 500, y |-> 10, age |-> 50,
       householdsize |-> 3, havekids |-> TRUE,
       educationlevel |-> "HighSchoolOrCollege", joviality |-> 1],
      [participantid |-> 4, x |-> -1, y |-> -500, age |-> 20,
       householdsize |-> 1, havekids |-> FALSE, educationlevel |-> "Low",
       joviality |-> 0]>>

\* the result lists of the participant-location query: the rows of People
\* of the participants in S, in the order of People
PeopleOf(S) == SelectSeq(People, LAMBDA p : p.participantid \in S)

ParticipantTables == {PeopleOf(S) : S \in SUBSET {1, 2, 3, 4}}

\* per-participant row counts of participantstatuslogs; NullId counts the
\* rows without a participantid
StatusLogTables ==
    {(1 :> 500) @@ (2 :> 2500) @@ (3 :> 1999) @@ (4 :> 3000),
     (NullId :> 5) @@ (1 :> 2000) @@ (2 :> 1999) @@ (3 :> 2001) @@ (4 :> 1),
     (2 :> 2000) @@ (3 :> 2500) @@ (4 :> 7)}

FinancialRow(pid, wage, food, recreation, shelter) ==
    [participantid |-> pid, total_wage |-> wage, total_food |-> food,
     total_recreation |-> recreation, total_shelter |-> shelter]

\* results of the financialjournal query: a row per participant that has
\* journal entries, among them participants without a home and NULL
FinancialTables ==
    {{FinancialRow(1, 100, 10, 5, 40), FinancialRow(2, 300, 30, 0, 60),
      FinancialRow(3, 200, 20, 10, 50), FinancialRow(4, 50, 5, 1, 20)},
     {FinancialRow(1, 100, 10, 5, 40), FinancialRow(3, 200, 20, 10, 50),
      FinancialRow(5, 70, 7, 7, 7), FinancialRow(NullId, 9, 9, 9, 9)},
     {}}

AreaGridSizes == {500, 1, -500}

AreaMetrics == {"all", "demographics", "financial", "venues"}

AreaParam(g, m, e) == [grid_size |-> g, metric |-> m, exclude_outliers |-> e]

AreaParamSet ==
    {AreaParam(g, m, e) : g \in AreaGridSizes, m \in AreaMetrics,
                          e \in {"true", "false"}}

NoAreaRun ==
    /\ areaParams = AreaParam(500, "all", "false")
    /\ areaOut = [ran |-> FALSE, outlier_pids |-> {}, demographics |-> {},
                  financial |-> {}, sections |-> {}]

NoCall ==
    /\ call = [fn |-> "none"]
    /\ ret = [fn |-> "none"]

\* the tables of the dataset the server runs on
ServerData ==
    /\ statuslog_counts = StatusLogCount
    /\ participant_rows = PeopleOf({1, 2})
    /\ financial_rows = {}

NoFlowRun ==
    /\ flowParams = FlowParam(1, <<"all", "all", NoDate, NoDate>>, 0)
    /\ flowOut = [ran |-> FALSE, flows |-> {}, cells |-> {}]

Init ==
    /\ traveljournal \in ServerTripTables
    /\ participantstatuslogs = LogsComplete
    /\ mv \in MVStates
    /\ ServerData
    /\ NoFlowRun
    /\ NoAreaRun
    /\ NoCall
    /\ ServerInit

-----------------------------------------------------------------------------
(* Actions of the server *)

\* conn = pool.getconn(), line 87
GetConn(t) ==
    /\ checked_out' = checked_out + 1
    /\ conn' = [conn EXCEPT ![t] = TRUE]

\* return_db_connection(conn), line 93, by a handler that took one
ReturnConn(t) ==
    IF conn[t]
    THEN /\ checked_out' = checked_out - 1
         /\ conn' = [conn EXCEPT ![t] = FALSE]
    ELSE UNCHANGED poolVars

\* the reply steps that call return_db_connection first: all but the
\* invalid dimension of theme_river, line 2013
ReturnsBeforeReply(r, status) == ~(r.kind = "theme_river" /\ status = 400)

\* a store that also empties the other three caches
StoreInFlushing(kind, key, v) ==
    /\ temporal_patterns_cache' =
         IF kind = "temporal_patterns"
         THEN Put(temporal_patterns_cache, key, v) ELSE <<>>
    /\ flow_map_cache' =
         IF kind = "flow_map" THEN Put(flow_map_cache, key, v) ELSE <<>>
    /\ theme_river_cache' =
         IF kind = "theme_river" THEN Put(theme_river_cache, key, v) ELSE <<>>
    /\ traffic_sql_cache' =
         IF kind = "get_traffic_aggregation_sql"
         THEN Put(traffic_sql_cache, key, v) ELSE <<>>

StoreIn(kind, key, v) ==
    /\ temporal_patterns_cache' =
         IF kind = "temporal_patterns"
         THEN Put(temporal_patterns_cache, key, v) ELSE temporal_patterns_cache
    /\ flow_map_cache' =
         IF kind = "flow_map" THEN Put(flow_map_cache, key, v)
         ELSE flow_map_cache
    /\ theme_river_cache' =
         IF kind = "theme_river" THEN Put(theme_river_cache, key, v)
         ELSE theme_river_cache
    /\ traffic_sql_cache' =
         IF kind = "get_traffic_aggregation_sql"
         THEN Put(traffic_sql_cache, key, v) ELSE traffic_sql_cache

\* a request arrives: the handler reads its parameters and checks its cache,
\* lines 186-193, 1047-1057, 1410-1423, 1897-1907
Begin(t, r) ==
    /\ pc[t] = "idle"
    /\ \A u \in Earlier(t) : pc[u] # "idle"
    /\ started < MaxRequests
    /\ started' = started + 1
    /\ req' = [req EXCEPT ![t] = r]
    /\ later' = [later EXCEPT ![t] = Key(r) \in DOMAIN firstOK]
    /\ overlap' = (overlap \/ \E u \in Threads \ {t} : InFlight(u))
    /\ IF r.kind \in CachedKinds /\ CacheLookup(CacheOf(r.kind), CacheKey(r))
       THEN /\ pc' = [pc EXCEPT ![t] = "done"]
            /\ resp' = [resp EXCEPT ![t] =
                 [status |-> 200, body |-> CacheOf(r.kind)[CacheKey(r)]]]
            /\ hit' = [hit EXCEPT ![t] = TRUE]
            /\ pos' = pos
       ELSE /\ pc' = [pc EXCEPT ![t] = "run"]
            /\ pos' = [pos EXCEPT ![t] = 1]
            /\ UNCHANGED <<resp, hit>>
    /\ UNCHANGED <<dataVars, flowVars, areaVars, callVars, cacheVars, globals, poolVars,
                   failed, wrote, issued, firstOK, stores, loads>>

\* "if <global> is not None: return <global>", lines 31, 62, 123, 162, 271, 688
LazyCheck(t) ==
    /\ pc[t] = "run"
    /\ Step(t).op = "lazy"
    /\ IF globals[Step(t).arg] # None
       THEN /\ pos' = [pos EXCEPT ![t] = @ + 1]
            /\ pc' = pc
            /\ IF Step(t).arg = "_connection_pool"
               THEN GetConn(t) ELSE UNCHANGED poolVars
       ELSE /\ pc' = [pc EXCEPT ![t] = "load"]
            /\ pos' = pos
            /\ UNCHANGED poolVars
    /\ UNCHANGED <<dataVars, flowVars, areaVars, callVars, cacheVars, globals, req, resp, failed,
                   hit, wrote, issued, later, histVars>>

IssuesQuery(what) == what # "_connection_pool"

\* the global was None: query and assign, lines 32-39, 69-80, 131-153,
\* 168-181, 277-286, 690-702
LazyLoad(t) ==
    /\ pc[t] = "load"
    /\ globals' = [globals EXCEPT ![Step(t).arg] = Loaded(Step(t).arg)]
    /\ loads' = Bump(loads, Step(t).arg)
    /\ issued' = [issued EXCEPT ![t] = @ \/ IssuesQuery(Step(t).arg)]
    /\ pc' = [pc EXCEPT ![t] = "run"]
    /\ pos' = [pos EXCEPT ![t] = @ + 1]
    /\ IF Step(t).arg = "_connection_pool"
       THEN GetConn(t) ELSE UNCHANGED poolVars
    /\ UNCHANGED <<dataVars, flowVars, areaVars, callVars, cacheVars, req, resp, failed, hit,
                   wrote, later, firstOK, stores, overlap, started>>

\* the load raises: the global stays None and the request ends with 500
LazyLoadRaises(t) ==
    /\ pc[t] = "load"
    /\ issued' = [issued EXCEPT ![t] = @ \/ IssuesQuery(Step(t).arg)]
    /\ failed' = [failed EXCEPT ![t] = Step(t).arg]
    /\ resp' = [resp EXCEPT ![t] = Error500(Step(t).arg)]
    /\ pc' = [pc EXCEPT ![t] = "done"]
    /\ ReturnConn(t)
    /\ UNCHANGED <<dataVars, flowVars, areaVars, callVars, cacheVars, globals, req, pos, hit,
                   wrote, later, histVars>>

\* every query of the step returns
RunQueries(t) ==
    /\ pc[t] = "run"
    /\ Step(t).op = "query"
    /\ issued' = [issued EXCEPT ![t] = TRUE]
    /\ pos' = [pos EXCEPT ![t] = @ + 1]
    /\ UNCHANGED <<dataVars, flowVars, areaVars, callVars, cacheVars, globals, poolVars, pc,
                   req, resp, failed, hit, wrote, later, histVars>>

\* an except branch that publishes what was computed before the failure
QueryRaisesStoring(t, q) ==
    /\ pc[t] = "run"
    /\ Step(t).op = "query"
    /\ q \in Step(t).arg
    /\ issued' = [issued EXCEPT ![t] = TRUE]
    /\ failed' = [failed EXCEPT ![t] = q]
    /\ resp' = [resp EXCEPT ![t] = Error500(q)]
    /\ pc' = [pc EXCEPT ![t] = "done"]
    /\ IF req[t].kind \in CachedKinds
       THEN StoreIn(req[t].kind, CacheKey(req[t]), <<"partial", q>>)
       ELSE UNCHANGED cacheVars
    /\ ReturnConn(t)
    /\ UNCHANGED <<dataVars, flowVars, areaVars, callVars, globals, req, pos, hit, wrote, later,
                   histVars>>

\* query q of the step raises: the except branch answers 500, lines
\* 501-505, 632-636, 1026-1030, 1246-1250, 1873-1877, 2139-2146
QueryRaises(t, q) ==
    /\ pc[t] = "run"
    /\ Step(t).op = "query"
    /\ q \in Step(t).arg
    /\ issued' = [issued EXCEPT ![t] = TRUE]
    /\ failed' = [failed EXCEPT ![t] = q]
    /\ resp' = [resp EXCEPT ![t] = Error500(q)]
    /\ pc' = [pc EXCEPT ![t] = "done"]
    /\ ReturnConn(t)
    /\ UNCHANGED <<dataVars, flowVars, areaVars, callVars, cacheVars, globals, req, pos, hit,
                   wrote, later, histVars>>

\* "cache[cache_key] = results", then the connection is returned and the
\* results are sent, lines 262-264, 1238-1244, 1865-1871, 2131-2137
StoreResult(t) ==
    /\ pc[t] = "run"
    /\ Step(t).op = "store"
    /\ StoreIn(req[t].kind, CacheKey(req[t]), Result(req[t]))
    /\ wrote' = [wrote EXCEPT ![t] = TRUE]
    /\ stores' = Bump(stores, Key(req[t]))
    /\ resp' = [resp EXCEPT ![t] = [status |-> 200, body |-> Result(req[t])]]
    /\ firstOK' = RecordOK(req[t], Result(req[t]))
    /\ pc' = [pc EXCEPT ![t] = "done"]
    /\ ReturnConn(t)
    /\ UNCHANGED <<dataVars, flowVars, areaVars, callVars, globals, req, pos, failed, hit, issued,
                   later, loads, overlap, started>>

\* a handler that returns without storing: the uncached endpoints, the
\* metadata-only path of flow_map (line 1490) and the invalid dimension of
\* theme_river (line 2013)
SendReply(t) ==
    /\ pc[t] = "run"
    /\ Step(t).op = "reply"
    /\ resp' = [resp EXCEPT ![t] =
         [status |-> Step(t).arg, body |-> ReplyBody(req[t], Step(t).arg)]]
    /\ firstOK' = IF Step(t).arg = 200
                  THEN RecordOK(req[t], Result(req[t])) ELSE firstOK
    /\ pc' = [pc EXCEPT ![t] = "done"]
    /\ IF ReturnsBeforeReply(req[t], Step(t).arg)
       THEN ReturnConn(t) ELSE UNCHANGED poolVars
    /\ UNCHANGED <<dataVars, flowVars, areaVars, callVars, cacheVars, globals, req, pos, failed,
                   hit, wrote, issued, later, stores, loads, overlap, started>>

\* the response has been sent; the thread serves the next request and the
\* handler's local conn is gone
Finish(t) ==
    /\ pc[t] = "done"
    /\ pc' = [pc EXCEPT ![t] = "idle"]
    /\ req' = [req EXCEPT ![t] = NoRequest]
    /\ pos' = [pos EXCEPT ![t] = 0]
    /\ resp' = [resp EXCEPT ![t] = NoResponse]
    /\ failed' = [failed EXCEPT ![t] = "none"]
    /\ hit' = [hit EXCEPT ![t] = FALSE]
    /\ wrote' = [wrote EXCEPT ![t] = FALSE]
    /\ issued' = [issued EXCEPT ![t] = FALSE]
    /\ later' = [later EXCEPT ![t] = FALSE]
    /\ conn' = [conn EXCEPT ![t] = FALSE]
    /\ UNCHANGED <<dataVars, flowVars, areaVars, callVars, cacheVars, globals, checked_out,
                   histVars>>

Next ==
    \E t \in Threads :
        \/ \E r \in Requests : Begin(t, r)
        \/ LazyCheck(t)
        \/ LazyLoad(t)
        \/ LazyLoadRaises(t)
        \/ RunQueries(t)
        \/ \E q \in {"date_range", "activity", "spending", "social", "mode",
                     "purpose", "available_dates", "bounds", "purposes",
                     "mv_exists", "mv_has_date", "flows", "cells", "buildings",
                     "traffic_aggregation", "financial", "venues",
                     "apartments", "locations", "available_months",
                     "routine_summaries"} : QueryRaises(t, q)
        \/ StoreResult(t)
        \/ SendReply(t)
        \/ Finish(t)

Spec == Init /\ [][Next]_vars

-----------------------------------------------------------------------------
(* The server under requests with a grid_size below 1 and with             *)
(* participant_ids                                                          *)

EdgeNext ==
    \E t \in Threads :
        \/ \E r \in EdgeRequests : Begin(t, r)
        \/ LazyCheck(t)
        \/ LazyLoad(t)
        \/ LazyLoadRaises(t)
        \/ RunQueries(t)
        \/ \E q \in {"available_dates", "bounds", "purposes", "mv_exists",
                     "mv_has_date", "flows", "cells", "buildings", "financial",
                     "venues", "apartments", "available_months", "routines"} :
              QueryRaises(t, q)
        \/ StoreResult(t)
        \/ SendReply(t)
        \/ Finish(t)

EdgeSpec == Init /\ [][EdgeNext]_vars

-----------------------------------------------------------------------------
(* Single calls of the hour filters, the home lookups and the theme_river   *)
(* table                                                                    *)

TimePeriods == {"all", "morning", "midday", "afternoon", "evening", "night"}

StatusSample(pid, ts, apartmentid) ==
    [participantid |-> pid, timestamp |-> ts, apartmentid |-> apartmentid]

\* status samples with their apartment reference: a participant who keeps
\* one apartment, one who moves, one whose first samples have none
HomeSampleTables ==
    {{StatusSample(1, 0, 11), StatusSample(1, 1, 11), StatusSample(2, 0, 12)},
     {StatusSample(1, 0, 11), StatusSample(1, 5, 13), StatusSample(2, 3, 12)},
     {StatusSample(1, 0, NullId), StatusSample(1, 2, 13),
      StatusSample(1, 4, 11), StatusSample(2, 1, NullId)}}

ThemePeriods == {0, 7}
ThemeCategories == {"AtHome", "AtWork", "Transport"}

\* results of the grouped query: per period and category no row, or a row
\* with a count of 1 or 3
ThemeRowTables ==
    {{[period |-> k[1], category |-> k[2], value |-> f[k]] :
         k \in {j \in ThemePeriods \X ThemeCategories : f[j] > 0}} :
       f \in [ThemePeriods \X ThemeCategories -> {0, 1, 3}]}

CallInit ==
    /\ traveljournal = {}
    /\ participantstatuslogs = {}
    /\ mv = "absent"
    /\ ServerData
    /\ NoFlowRun
    /\ NoAreaRun
    /\ NoCall
    /\ ServerInit

\* whether the hour filter of time_period selects a check-in of hour h, at
\* each of the three places that have one
RunTimePeriod(time_period, h) ==
    /\ call.fn = "none"
    /\ call' = [fn |-> "time_period", time_period |-> time_period, hour |-> h]
    /\ ret' = [fn |-> "time_period",
               traffic_sql |-> h \in TrafficSqlHours(time_period),
               traffic_patterns |-> h \in TrafficPatternsHours(time_period),
               temporal_patterns |-> h \in TemporalBucketHours(time_period)]
    /\ UNCHANGED <<dataVars, flowVars, areaVars, serverVars>>

\* the home of participant pid as get_participant_locations and as
\* participant_routines look it up
RunHomeLookups(samples, pid) ==
    /\ call.fn = "none"
    /\ call' = [fn |-> "home", samples |-> samples, pid |-> pid]
    /\ \E a \in HomeLookup(samples, pid), b \in HomeLookup(samples, pid) :
          ret' = [fn |-> "home", area_characteristics |-> a,
                  participant_routines |-> b]
    /\ UNCHANGED <<dataVars, flowVars, areaVars, serverVars>>

\* the table theme_river builds from the rows of its query
RunThemeTable(data, normalize) ==
    /\ call.fn = "none"
    /\ call' = [fn |-> "theme_river", data |-> data, normalize |-> normalize]
    /\ ret' = [fn |-> "theme_river",
               results |-> ThemeTable(data, ParseBool(normalize))]
    /\ UNCHANGED <<dataVars, flowVars, areaVars, serverVars>>

CallNext ==
    \/ \E time_period \in TimePeriods, h \in Hours :
          RunTimePeriod(time_period, h)
    \/ \E samples \in HomeSampleTables, pid \in {1, 2} :
          RunHomeLookups(samples, pid)
    \/ \E data \in ThemeRowTables, normalize \in {"true", "false"} :
          RunThemeTable(data, normalize)

CallSpec == CallInit /\ [][CallNext]_vars

-----------------------------------------------------------------------------
(* The flow aggregation on its own *)

FlowInit ==
    /\ traveljournal \in TripTables
    /\ participantstatuslogs \in LogTables
    /\ mv \in MVStates
    /\ ServerData
    /\ NoFlowRun
    /\ NoAreaRun
    /\ NoCall
    /\ ServerInit

\* one run of the two queries of flow_map with parameters p
RunFlow(p) ==
    /\ ~flowOut.ran
    /\ flowParams' = p
    /\ flowOut' =
         [ran |-> TRUE,
          flows |-> FlowAggregation(p, mv, traveljournal,
                                    participantstatuslogs).flows,
          cells |-> FlowAggregation(p, mv, traveljournal,
                                    participantstatuslogs).cells]
    /\ UNCHANGED <<dataVars, areaVars, callVars, serverVars>>

FlowNext == \E p \in FlowParamSet : RunFlow(p)

FlowSpec == FlowInit /\ [][FlowNext]_vars

-----------------------------------------------------------------------------
(* The aggregation of area_characteristics on its own *)

AreaInit ==
    /\ traveljournal = {}
    /\ participantstatuslogs = {}
    /\ mv = "absent"
    /\ statuslog_counts \in StatusLogTables
    /\ participant_rows \in ParticipantTables
    /\ financial_rows \in FinancialTables
    /\ NoFlowRun
    /\ NoAreaRun
    /\ NoCall
    /\ ServerInit

\* one run of area_characteristics with parameters p: the outlier set is
\* loaded when exclude_outliers is set, lines 320-322, then the sections
\* of the metric are computed
RunArea(p) ==
    /\ ~areaOut.ran
    /\ areaParams' = p
    /\ areaOut' =
         LET res == AreaResult(p, participant_rows, statuslog_counts,
                               financial_rows)
         IN [ran |-> TRUE,
             outlier_pids |-> IF ParseBool(p.exclude_outliers)
                              THEN OutlierParticipants(statuslog_counts)
                              ELSE {},
             demographics |-> res.demographics,
             financial |-> res.financial,
             sections |-> res.sections]
    /\ UNCHANGED <<dataVars, flowVars, callVars, serverVars>>

AreaNext == \E p \in AreaParamSet : RunArea(p)

AreaSpec == AreaInit /\ [][AreaNext]_vars

-----------------------------------------------------------------------------
(* Properties of the result caches and of the lazily loaded globals         *)
(* (specification Spec)                                                     *)

Cached(t) == req[t].kind \in CachedKinds

Answered(t) == pc[t] = "done" /\ resp[t].status = 200

HasEntry(r) == CacheKey(r) \in DOMAIN CacheOf(r.kind)

\* a later request of a sequence neither queries the record source nor
\* returns another result than the first
LaterIsHit(t) ==
    /\ ~issued[t]
    /\ Answered(t) => resp[t].body = firstOK[Key(req[t])]

\* C1 as stated: for every cached aggregation and every parameter tuple, a
\* request made after an equal request has succeeded issues no record-source
\* query and returns the first result, and a sequential run computes at most
\* once per key.
C1_LaterRequestIsHit ==
    /\ \A t \in Threads : later[t] /\ Cached(t) => LaterIsHit(t)
    /\ ~overlap => \A k \in CacheKeys : stores[k] <= 1

\* C1: for every cached aggregation and every parameter tuple other than a
\* flow_map tuple with neither start_date nor end_date, a request made after
\* an equal request has succeeded issues no record-source query and returns
\* the first result, and a sequential run stores at most once per key; a
\* flow_map request with neither date is never stored, queries the record
\* source every time and returns a result equal to the first.
C1_LaterDatedRequestIsHit ==
    /\ \A t \in Threads :
          later[t] /\ Cached(t) =>
             IF FastPath(req[t])
             THEN /\ ~hit[t]
                  /\ ~HasEntry(req[t])
                  /\ Answered(t) =>
                        issued[t] /\ resp[t].body = firstOK[Key(req[t])]
             ELSE hit[t] /\ LaterIsHit(t)
    /\ ~overlap => \A k \in CacheKeys : stores[k] <= 1

C1_Witness ==
    \E t \in Threads :
        /\ later[t] /\ hit[t] /\ Answered(t)
        /\ req[t].kind = "flow_map"
        /\ resp[t].body.flows # {}

\* what a computation applying every filter of the key returns
FlowReference(k) ==
    [flows |-> FlowsQuery(RowsReconstructed(FlowArgs(k), traveljournal,
                                            participantstatuslogs),
                          k[1], k[4]),
     cells |-> CellsQuery(RowsReconstructed(FlowArgs(k), traveljournal,
                                            participantstatuslogs), k[1])]

\* C2: a request answered from a cache gets what a fresh computation with its
\* own parameters returns on the same dataset, and every stored entry was
\* computed with exactly the filters its key names; for flow_map that is the
\* day, purpose, min_trips and start_date/end_date filters of the key.
C2_KeyNamesEveryFilter ==
    /\ \A t \in Threads :
          hit[t] /\ Answered(t) => resp[t].body = Result(req[t])
    /\ \A k \in DOMAIN temporal_patterns_cache :
          temporal_patterns_cache[k] = TemporalResult(k)
    /\ \A k \in DOMAIN theme_river_cache :
          theme_river_cache[k] = ThemeResult(k)
    /\ \A k \in DOMAIN traffic_sql_cache :
          traffic_sql_cache[k] = TrafficSqlResult(k)
    /\ \A k \in DOMAIN flow_map_cache :
          /\ flow_map_cache[k].flows = FlowReference(k).flows
          /\ flow_map_cache[k].cells = FlowReference(k).cells

\* C3: when a query of a miss-path computation or of a lazy load raises, the
\* request ends with status 500, the step leaves every result cache and
\* every global as it was, and the request has stored nothing, so its key is
\* still absent unless another request stored it.
C3_ErrorStoresNothing ==
    [][\A t \in Threads :
          (failed'[t] # "none" /\ failed[t] = "none") =>
             /\ pc'[t] = "done"
             /\ resp'[t].status = 500
             /\ cacheVars' = cacheVars
             /\ globals' = globals
             /\ ~wrote'[t]
             /\ ~hit'[t]]_vars

C3_Witness ==
    \E t \in Threads :
        /\ pc[t] = "done" /\ resp[t].status = 500
        /\ failed[t] \in {"flows", "_outlier_participants_cache"}
        /\ Cached(t)
        /\ ~HasEntry(req[t])

BothMissed(t, u) ==
    /\ t # u
    /\ Cached(t)
    /\ req[u] = req[t]
    /\ Answered(t) /\ Answered(u)
    /\ wrote[t] /\ wrote[u]

\* C4: when two requests with the same key both miss and both store, the
\* cache holds the entry for the key, both callers got results equal to each
\* other and to the entry, and a store leaves the entry of every other key
\* as it was.
C4_DuplicateStoreIsIdempotent ==
    /\ [](\A t, u \in Threads :
            BothMissed(t, u) =>
               /\ HasEntry(req[t])
               /\ resp[t].body = resp[u].body
               /\ CacheOf(req[t].kind)[CacheKey(req[t])] = resp[t].body)
    /\ [][\A kind \in CachedKinds : \A k \in DOMAIN CacheOf(kind) :
            (\A t \in Threads :
                ~(wrote'[t] /\ ~wrote[t] /\ req[t].kind = kind
                  /\ CacheKey(req[t]) = k)) =>
               /\ k \in DOMAIN CacheOf(kind)'
               /\ CacheOf(kind)'[k] = CacheOf(kind)[k]]_vars

C4_Witness ==
    \E t, u \in Threads :
        /\ BothMissed(t, u)
        /\ stores[Key(req[t])] = 2

\* C5: every lazily initialised global is loaded at most once per process,
\* also when several requests touch it for the first time concurrently.
C5_LoadedAtMostOnce == \A g \in GlobalNames : loads[g] <= 1

DatedFlowWithoutView(t) ==
    /\ req[t].kind = "flow_map"
    /\ ~FastPath(req[t])
    /\ mv = "absent"
    /\ pc[t] = "done"

\* C8: a flow_map request with a date range on a database without the
\* trip_coordinates view ends with status 500 only if a query or the
\* connection failed; otherwise it ends with status 200, its flows and cells
\* are those of the reconstructed path, and a request that missed has stored
\* that result under its key.
C8_MissingViewIsNoError ==
    \A t \in Threads :
        DatedFlowWithoutView(t) =>
           /\ resp[t].status \in {200, 500}
           /\ resp[t].status = 500 <=> failed[t] # "none"
           /\ resp[t].status = 200 =>
                 /\ resp[t].body.flows = FlowReference(req[t].p).flows
                 /\ resp[t].body.cells = FlowReference(req[t].p).cells
                 /\ HasEntry(req[t])
                 /\ flow_map_cache[CacheKey(req[t])] = resp[t].body
                 /\ ~hit[t] => wrote[t]

C8_Witness ==
    \E t \in Threads :
        /\ DatedFlowWithoutView(t)
        /\ resp[t].status = 200
        /\ wrote[t]
        /\ resp[t].body.flows # {}
        /\ resp[t].body.cells # {}

-----------------------------------------------------------------------------
(* Properties of the flow aggregation (specification FlowSpec)              *)

\* C7: on the same trips and position samples and with the same parameters,
\* the flows and the cells are the same whether the materialized view is
\* absent (reconstructed path), present without trip_date or present with
\* trip_date (precomputed path).
C7_PathsAgree ==
    flowOut.ran =>
       \A m \in MVStates :
          /\ FlowAggregation(flowParams, m, traveljournal,
                             participantstatuslogs).flows = flowOut.flows
          /\ FlowAggregation(flowParams, m, traveljournal,
                             participantstatuslogs).cells = flowOut.cells

\* the filtered rows the run read, on the path the state of the view selects
RowsRead == FlowRows(flowParams, mv, traveljournal, participantstatuslogs)

Resolved(r) == r.start # NULL /\ r.end # NULL

CrossCell(r) ==
    CellOf(r.start, flowParams.grid_size) # CellOf(r.end, flowParams.grid_size)

\* the resolved cross-cell rows of bucket <<hour, origin cell, destination cell>>
Bucket(h, o, d) ==
    {r \in RowsRead :
        /\ Resolved(r)
        /\ CrossCell(r)
        /\ r.hour_bucket = h
        /\ CellOf(r.start, flowParams.grid_size) = o
        /\ CellOf(r.end, flowParams.grid_size) = d}

BucketOf(f) ==
    Bucket(f.hour_bucket, <<f.start_cell_x, f.start_cell_y>>,
           <<f.end_cell_x, f.end_cell_y>>)

\* C9: on both paths no emitted flow has its origin cell equal to its
\* destination cell, and the trips of an emitted flow count exactly the
\* resolved rows of its bucket whose two cells differ: a same-cell trip adds
\* nothing.
C9_NoSameCellFlow ==
    flowOut.ran =>
       \A f \in flowOut.flows :
          /\ ~(f.start_cell_x = f.end_cell_x /\ f.start_cell_y = f.end_cell_y)
          /\ f.trips = Cardinality(BucketOf(f))

C9_Witness ==
    /\ flowOut.ran
    /\ flowOut.flows # {}
    /\ \E r \in RowsRead, f \in flowOut.flows :
          /\ Resolved(r)
          /\ ~CrossCell(r)
          /\ r.start # r.end
          /\ f.hour_bucket = r.hour_bucket
          /\ <<f.start_cell_x, f.start_cell_y>>
               = CellOf(r.start, flowParams.grid_size)

\* C10: every emitted flow has trips >= min_trips, and every bucket of
\* resolved cross-cell rows with at least min_trips rows (and at least one)
\* is emitted with its count.
C10_ThresholdIsExact ==
    flowOut.ran =>
       /\ \A f \in flowOut.flows : f.trips >= flowParams.min_trips
       /\ \A r \in RowsRead :
             LET b == Bucket(r.hour_bucket,
                             CellOf(r.start, flowParams.grid_size),
                             CellOf(r.end, flowParams.grid_size))
             IN (Resolved(r) /\ CrossCell(r)
                 /\ Cardinality(b) >= flowParams.min_trips) =>
                   \E f \in flowOut.flows :
                      BucketOf(f) = b /\ f.trips = Cardinality(b)

\* three trips in one bucket, emitted with count 3 for min_trips = 2
C10_Witness ==
    /\ flowOut.ran
    /\ flowParams.min_trips = 2
    /\ \E f \in flowOut.flows : f.trips = 3 /\ Cardinality(BucketOf(f)) = 3

\* the run of the state repeated with another min_trips
FlowWithMinTrips(m) ==
    FlowAggregation([flowParams EXCEPT !.min_trips = m], mv, traveljournal,
                    participantstatuslogs)

MinTripsValues == 0..(MaxTrips + 1)

\* C11: with the trips and the other parameters fixed, every flow emitted
\* for a min_trips m2 is emitted, with the same count, for every m1 <= m2.
C11_LoweringKeepsBuckets ==
    flowOut.ran =>
       \A m2 \in MinTripsValues :
          flowParams.min_trips <= m2 =>
             FlowWithMinTrips(m2).flows \subseteq flowOut.flows

C11_Witness ==
    /\ flowOut.ran
    /\ flowParams.min_trips = 1
    /\ FlowWithMinTrips(2).flows # {}
    /\ FlowWithMinTrips(2).flows # flowOut.flows

\* the rows read whose two lookups both found a sample
ResolvedRows == {r \in RowsRead : Resolved(r)}

\* C12: a trip whose origin or destination lookup finds no sample counts in
\* no flow and in no departures or arrivals of the cells: flows and cells
\* are those of the trips with both endpoints resolved.
C12_UnresolvedTripsExcluded ==
    flowOut.ran =>
       /\ flowOut.flows =
             FlowsQuery(ResolvedRows, flowParams.grid_size,
                        flowParams.min_trips)
       /\ flowOut.cells = CellsQuery(ResolvedRows, flowParams.grid_size)

TripOf(r) == CHOOSE t \in traveljournal : t.travelid = r.travelid

Located(pid) ==
    {s \in participantstatuslogs :
        s.participantid = pid /\ s.currentlocation # NULL}

\* loc is the position of the latest located sample of the trip's
\* participant at or before the trip start, NULL when there is none
IsOrigin(loc, t) ==
    LET before == {s \in Located(t.participantid) :
                      s.timestamp <= t.travelstarttime}
    IN IF before = {} THEN loc = NULL
       ELSE \E s \in before :
               /\ loc = s.currentlocation
               /\ \A u \in before : u.timestamp <= s.timestamp

\* loc is the position of the earliest located sample of the trip's
\* participant at or after the trip end, NULL when there is none
IsDestination(loc, t) ==
    LET after == {s \in Located(t.participantid) :
                     s.timestamp >= t.travelendtime}
    IN IF after = {} THEN loc = NULL
       ELSE \E s \in after :
               /\ loc = s.currentlocation
               /\ \A u \in after : u.timestamp >= s.timestamp

\* C13: on the reconstructed path the origin of every trip is the position
\* of its participant's latest sample at or before the start time and the
\* destination that of the earliest sample at or after the end time; a
\* sample at the boundary time counts, and the lookup gives no location
\* when the participant has no sample on that side.
C13_AsOfLookups ==
    (flowOut.ran /\ mv = "absent") =>
       \A r \in RowsRead :
          /\ IsOrigin(r.start, TripOf(r))
          /\ IsDestination(r.end, TripOf(r))

C13_Witness ==
    /\ flowOut.ran
    /\ mv = "absent"
    /\ \E r \in RowsRead :
          /\ r.start # NULL
          /\ r.end = NULL
          /\ \E s \in Located(TripOf(r).participantid) :
                /\ s.timestamp = TripOf(r).travelstarttime
                /\ s.currentlocation = r.start
    /\ \E r \in RowsRead :
          /\ r.start = NULL
          /\ \E s \in participantstatuslogs :
                /\ s.participantid # TripOf(r).participantid
                /\ s.timestamp <= TripOf(r).travelstarttime
                /\ s.currentlocation # NULL

Departures(h, c) ==
    Cardinality({r \in RowsRead :
                    /\ r.start # NULL
                    /\ r.hour_bucket = h
                    /\ CellOf(r.start, flowParams.grid_size) = c})

Arrivals(h, c) ==
    Cardinality({r \in RowsRead :
                    /\ r.end # NULL
                    /\ r.hour_bucket = h
                    /\ CellOf(r.end, flowParams.grid_size) = c})

HasCell(h, c) ==
    \E row \in flowOut.cells :
       row.hour_bucket = h /\ <<row.cell_x, row.cell_y>> = c

\* C14: the cells output has one row for every (hour, cell) with a
\* departure or an arrival and no other row, its departures and arrivals
\* are the counts of that hour and cell (0 for a missing side), net_flow is
\* arrivals - departures, and the rows are the same for every min_trips.
C14_CellSummary ==
    flowOut.ran =>
       /\ \A row \in flowOut.cells :
             LET c == <<row.cell_x, row.cell_y>>
             IN /\ row.departures = Departures(row.hour_bucket, c)
                /\ row.arrivals = Arrivals(row.hour_bucket, c)
                /\ row.net_flow = row.arrivals - row.departures
                /\ row.departures + row.arrivals >= 1
       /\ \A r1, r2 \in flowOut.cells :
             (/\ r1.hour_bucket = r2.hour_bucket
              /\ r1.cell_x = r2.cell_x
              /\ r1.cell_y = r2.cell_y) => r1 = r2
       /\ \A r \in RowsRead :
             /\ r.start # NULL =>
                   HasCell(r.hour_bucket, CellOf(r.start, flowParams.grid_size))
             /\ r.end # NULL =>
                   HasCell(r.hour_bucket, CellOf(r.end, flowParams.grid_size))
       /\ \A m \in MinTripsValues : FlowWithMinTrips(m).cells = flowOut.cells

C14_Witness ==
    /\ flowOut.ran
    /\ flowOut.flows = {}
    /\ FlowWithMinTrips(1).flows # {}
    /\ \E row \in flowOut.cells : row.departures = 0 /\ row.arrivals >= 1
    /\ \E row \in flowOut.cells : row.departures >= 1 /\ row.arrivals >= 1

-----------------------------------------------------------------------------
(* Properties of the outlier set and of area_characteristics                *)
(* (specification AreaSpec)                                                 *)

Excluding == ParseBool(areaParams.exclude_outliers)

\* C15: the outlier set holds exactly the participants with fewer than 2000
\* rows in participantstatuslogs (1999 is in, 2000 is out) and never the
\* NULL participant.
C15_OutlierSet ==
    (areaOut.ran /\ Excluding) =>
       /\ \A pid \in DOMAIN statuslog_counts \ {NullId} :
             pid \in areaOut.outlier_pids <=> statuslog_counts[pid] < 2000
       /\ areaOut.outlier_pids \subseteq DOMAIN statuslog_counts \ {NullId}

\* counts 500, 2500, 1999, 3000 give the participants with 500 and 1999
C15_Witness ==
    /\ areaOut.ran
    /\ Excluding
    /\ statuslog_counts = (1 :> 500) @@ (2 :> 2500) @@ (3 :> 1999) @@ (4 :> 3000)
    /\ areaOut.outlier_pids = {1, 3}

\* the participants with fewer than 2000 status-log rows
FewRows ==
    {pid \in DOMAIN statuslog_counts \ {NullId} : statuslog_counts[pid] < 2000}

\* the rows of the participant table that the request is to aggregate
KeptRows ==
    {participant_rows[i] : i \in
        {j \in DOMAIN participant_rows :
            Excluding => participant_rows[j].participantid \notin FewRows}}

KeptList ==
    SelectSeq(participant_rows,
              LAMBDA p : Excluding => p.participantid \notin FewRows)

HasSection(name) == areaOut.ran /\ name \in areaOut.sections

\* C16: with exclude_outliers the demographics and the financial output
\* are those of the participant table without the outlier participants,
\* without it they are those of the whole table, and the shared
\* participant table is never changed.
C16_OutliersFilteredFirst ==
    /\ [](/\ HasSection("demographics") =>
               areaOut.demographics =
                  Demographics(KeptList, areaParams.grid_size)
          /\ HasSection("financial") =>
               areaOut.financial =
                  Financial(KeptList, areaParams.grid_size, financial_rows)
          /\ areaOut.ran =>
               \A e \in areaOut.demographics :
                  e.population =
                     Cardinality({p \in KeptRows :
                        PyCell(p, areaParams.grid_size) = <<e.grid_x, e.grid_y>>}))
    /\ [][participant_rows' = participant_rows]_vars

C16_Witness ==
    /\ HasSection("demographics")
    /\ HasSection("financial")
    /\ Excluding
    /\ \E i \in DOMAIN participant_rows :
          /\ participant_rows[i].participantid \in areaOut.outlier_pids
          /\ participant_rows[i].participantid \in
                {r.participantid : r \in financial_rows}
    /\ areaOut.demographics # {}
    /\ areaOut.financial # {}

\* v is floor(x / size) for a positive size
IsFloor(v, x, size) == v * size <= x /\ x < (v + 1) * size

\* C17: for a positive grid_size the key of a participant is
\* (floor(x / grid_size), floor(y / grid_size)), also on a boundary and for
\* negative coordinates, it is the key the SQL binning gives, and every
\* participant is counted in the demographics entry of that key.
C17_CellKeyIsFloor ==
    (HasSection("demographics") /\ areaParams.grid_size > 0) =>
       \A p \in KeptRows :
          \E e \in areaOut.demographics :
             /\ IsFloor(e.grid_x, p.x, areaParams.grid_size)
             /\ IsFloor(e.grid_y, p.y, areaParams.grid_size)
             /\ <<e.grid_x, e.grid_y>> = PyCell(p, areaParams.grid_size)
             /\ <<e.grid_x, e.grid_y>>
                  = CellOf(<<p.x, p.y>>, areaParams.grid_size)

\* (10,10), (490,490), (500,10) with size 500 give (0,0), (0,0), (1,0)
C17_Witness ==
    /\ HasSection("demographics")
    /\ areaParams.grid_size = 500
    /\ ~Excluding
    /\ Len(participant_rows) = 4
    /\ {<<e.grid_x, e.grid_y, e.population>> : e \in areaOut.demographics}
         = {<<0, 0, 2>>, <<1, 0, 1>>, <<-1, -1, 1>>}

HomesIn(e) ==
    {p \in KeptRows :
        PyCell(p, areaParams.grid_size) = <<e.grid_x, e.grid_y>>}

\* C18: demographics has exactly one entry for each cell a kept
\* participant's home maps to and none for another cell; the population of
\* an entry is the number of those participants, at least 1, and the
\* populations add up to the number of kept participants.
C18_OneEntryPerPopulatedCell ==
    HasSection("demographics") =>
       /\ \A e \in areaOut.demographics :
             e.population = Cardinality(HomesIn(e)) /\ e.population >= 1
       /\ \A p \in KeptRows : \E e \in areaOut.demographics : p \in HomesIn(e)
       /\ \A e1, e2 \in areaOut.demographics :
             (e1.grid_x = e2.grid_x /\ e1.grid_y = e2.grid_y) => e1 = e2
       /\ SumField(areaOut.demographics, "population") = Cardinality(KeptRows)

C18_Witness ==
    /\ HasSection("demographics")
    /\ Cardinality(areaOut.demographics) >= 2
    /\ Cardinality(KeptRows) > Cardinality(areaOut.demographics)
    /\ Excluding
    /\ Cardinality(KeptRows) < Len(participant_rows)

Matching(e, f, v) == Cardinality({p \in HomesIn(e) : p[f] = v})

\* C19: in every demographics entry each average is the sum of the field
\* over the participants of the cell over the population, each pct field
\* is the number of matching participants over the population, so it is
\* between 0 and 1; the four education shares add up to at most 1 and the
\* divisor is never 0.
C19_AveragesAndShares ==
    HasSection("demographics") =>
       \A e \in areaOut.demographics :
          LET n == Cardinality(HomesIn(e))
              edu(v) == Matching(e, "educationlevel", v)
          IN /\ n >= 1
             /\ e.avg_age = <<SumField(HomesIn(e), "age"), n>>
             /\ e.avg_household_size =
                   <<SumField(HomesIn(e), "householdsize"), n>>
             /\ e.avg_joviality = <<SumField(HomesIn(e), "joviality"), n>>
             /\ e.pct_with_kids = <<Matching(e, "havekids", TRUE), n>>
             /\ e.pct_graduate = <<edu("Graduate"), n>>
             /\ e.pct_bachelors = <<edu("Bachelors"), n>>
             /\ e.pct_highschool = <<edu("HighSchoolOrCollege"), n>>
             /\ e.pct_low_education = <<edu("Low"), n>>
             /\ \A f \in {"pct_with_kids", "pct_graduate", "pct_bachelors",
                          "pct_highschool", "pct_low_education"} :
                   0 <= e[f][1] /\ e[f][1] <= e[f][2]
             /\ e.pct_graduate[1] + e.pct_bachelors[1] + e.pct_highschool[1]
                  + e.pct_low_education[1] <= n

C19_Witness ==
    /\ HasSection("demographics")
    /\ areaParams.grid_size < 0
    /\ \E e \in areaOut.demographics :
          /\ e.population = 2
          /\ e.pct_with_kids = <<1, 2>>
          /\ e.avg_age = <<71, 2>>

\* the financial rows of the participants whose home is in the cell of e
FinancesIn(e) ==
    {r \in financial_rows :
        \E p \in HomesIn(e) : p.participantid = r.participantid}

\* C20: every financial entry's averages are the sums of the
\* per-participant totals of the participants whose home is in the cell
\* over the population that demographics reports for the cell.
C20_FinancialAveragesOverPopulation ==
    HasSection("financial") =>
       \A e \in areaOut.financial :
          LET n == Cardinality(HomesIn(e))
          IN /\ e.avg_income = <<SumField(FinancesIn(e), "total_wage"), n>>
             /\ e.avg_food_spending =
                   <<SumField(FinancesIn(e), "total_food"), n>>
             /\ e.avg_recreation_spending =
                   <<SumField(FinancesIn(e), "total_recreation"), n>>
             /\ e.avg_shelter_spending =
                   <<SumField(FinancesIn(e), "total_shelter"), n>>

\* the lists that hold the records of list seq in another order
Orderings(seq) ==
    {[i \in DOMAIN seq |-> seq[f[i]]] :
        f \in {g \in [DOMAIN seq -> DOMAIN seq] :
                  \A i, j \in DOMAIN seq : g[i] = g[j] => i = j}}

\* C21: the demographics output does not depend on the order of the
\* participant records: every ordering of the same records gives the same
\* cells with the same population, counts and representative coordinate
\* (cell_x, cell_y).
C21_OrderIndependent ==
    HasSection("demographics") =>
       \A other \in Orderings(KeptList) :
          Demographics(other, areaParams.grid_size) = areaOut.demographics

-----------------------------------------------------------------------------
(* Properties of the handlers' exits (specification Spec)                   *)

\* a flow_map request with neither start_date nor end_date
Dateless(r) == r.kind = "flow_map" /\ r.p[5] = NoDate /\ r.p[6] = NoDate

\* C27: a flow_map request without start_date and end_date is never
\* answered from the cache and stores nothing, so its key is in no state in
\* _flow_map_cache; its 200 reply carries the available dates and the
\* purposes with empty flows, cells and buildings and zero statistics, it
\* is sent after querying the record source, also when the same request
\* succeeded before, no aggregation query was run and the connection is
\* back in the pool.
C27_DatelessFlowMapIsMetadataOnly ==
    /\ \A r \in Requests :
          Dateless(r) => CacheKey(r) \notin DOMAIN flow_map_cache
    /\ \A t \in Threads :
          Dateless(req[t]) =>
             /\ ~hit[t]
             /\ ~wrote[t]
             /\ failed[t] \notin {"mv_exists", "mv_has_date", "flows", "cells",
                                  "buildings"}
             /\ (pc[t] = "done" /\ resp[t].status = 200) =>
                   /\ issued[t]
                   /\ ~conn[t]
                   /\ resp[t].body.flows = {}
                   /\ resp[t].body.cells = {}
                   /\ resp[t].body.buildings = {}
                   /\ resp[t].body.statistics =
                         [total_flows |-> 0, total_trips |-> 0, max_trips |-> 0]
                   /\ resp[t].body.available_dates =
                         AvailableDates(traveljournal)
                   /\ resp[t].body.purposes =
                         {tr.purpose : tr \in traveljournal}

\* the same dateless request succeeds a second time, by querying again
C27_Witness ==
    \E t \in Threads :
       /\ Dateless(req[t])
       /\ later[t]
       /\ pc[t] = "done"
       /\ resp[t].status = 200
       /\ issued[t]
       /\ checked_out = 0
       /\ flow_map_cache = <<>>

\* C29: every request that took a connection has returned it when it
\* ends: whenever no request is in flight no connection is checked out.
C29_ConnectionsReturned ==
    /\ (\A t \in Threads : pc[t] = "idle") => checked_out = 0
    /\ \A t \in Threads : pc[t] = "done" => ~conn[t]

-----------------------------------------------------------------------------
(* Properties of parameter validation (specification EdgeSpec)              *)

NonPositiveGrid(r) ==
    r.kind \in {"flow_map", "area_characteristics"} /\ r.p[1] <= 0

\* C22: a flow_map or area_characteristics request with a grid_size of 0 or
\* less issues no record-source query and writes no cache entry, and it
\* ends with an invalid-parameter reply.
C22_NonPositiveGridRejected ==
    \A t \in Threads :
       NonPositiveGrid(req[t]) =>
          /\ ~issued[t]
          /\ ~wrote[t]
          /\ (pc[t] = "done" /\ failed[t] = "none") => resp[t].status = 400

\* the ids value names no id, more than two ids or an item that is no integer
BadIds(r) ==
    /\ r.kind = "participant_routines"
    /\ r.p[1] \in {"1,2,3", "1,x", ","}

\* C23: a participant_routines request whose participant_ids has more than
\* two ids, no id or a non-integer item issues no record-source query and
\* ends with an error reply that carries no routine.
C23_BadIdsRejectedBeforeQueries ==
    \A t \in Threads :
       BadIds(req[t]) =>
          /\ ~issued[t]
          /\ pc[t] = "done" =>
                /\ resp[t].status \in {400, 500}
                /\ resp[t].body[1] = "error"

-----------------------------------------------------------------------------
(* Properties of the date range of flow_map (specification FlowSpec)        *)

\* the trips of the day type and purpose asked for whose date is on or
\* after start_date and before end_date
HalfOpenRows ==
    {TripCoordsRow(participantstatuslogs, t) : t \in
        {t \in traveljournal :
            /\ DayClause(flowParams.day_type, Dow(t.travelstarttime))
            /\ PurposeClause(flowParams.purpose, t.purpose)
            /\ flowParams.start_date # NoDate =>
                  Date(t.travelstarttime) >= flowParams.start_date
            /\ flowParams.end_date # NoDate =>
                  Date(t.travelstarttime) < flowParams.end_date}}

\* C24: the date range is the half-open interval [start_date, end_date):
\* wherever the date filter is applied (reconstructed path, and precomputed
\* path with trip_date) the flows and cells are those of the trips dated on
\* or after start_date and strictly before end_date.
C24_DateRangeIsHalfOpen ==
    (flowOut.ran /\ mv # "without_date") =>
       /\ flowOut.flows =
             FlowsQuery(HalfOpenRows, flowParams.grid_size,
                        flowParams.min_trips)
       /\ flowOut.cells = CellsQuery(HalfOpenRows, flowParams.grid_size)

\* C30: over all rows of the cells output the departures add up to the
\* number of filtered trips with a known origin and the arrivals to the
\* number with a known destination; when every filtered trip has both, the
\* net_flow values add up to 0; a same-cell trip is counted in the
\* departures and in the arrivals of its cell and in no flow.
C30_CellTotals ==
    flowOut.ran =>
       /\ SumField(flowOut.cells, "departures")
            = Cardinality({r \in RowsRead : r.start # NULL})
       /\ SumField(flowOut.cells, "arrivals")
            = Cardinality({r \in RowsRead : r.end # NULL})
       /\ (\A r \in RowsRead : Resolved(r)) =>
             SumField(flowOut.cells, "net_flow") = 0
       /\ \A r \in RowsRead :
             (Resolved(r) /\ ~CrossCell(r)) =>
                /\ \E row \in flowOut.cells :
                      /\ row.hour_bucket = r.hour_bucket
                      /\ <<row.cell_x, row.cell_y>>
                           = CellOf(r.start, flowParams.grid_size)
                      /\ row.departures >= 1
                      /\ row.arrivals >= 1
                /\ ~\E f \in flowOut.flows :
                      /\ f.hour_bucket = r.hour_bucket
                      /\ <<f.start_cell_x, f.start_cell_y>>
                           = CellOf(r.start, flowParams.grid_size)
                      /\ <<f.end_cell_x, f.end_cell_y>>
                           = CellOf(r.end, flowParams.grid_size)

\* a run with a same-cell trip among several trips, all of them resolved,
\* and a cell with more arrivals than departures
C30_Witness ==
    /\ flowOut.ran
    /\ Cardinality(RowsRead) >= 2
    /\ \A r \in RowsRead : Resolved(r)
    /\ \E r \in RowsRead : ~CrossCell(r)
    /\ \E r \in RowsRead : CrossCell(r)
    /\ \E row \in flowOut.cells : row.net_flow > 0

-----------------------------------------------------------------------------
(* Properties of the hour filters, the home lookups and the theme_river     *)
(* table (specification CallSpec)                                           *)

NamedPeriods == {"morning", "midday", "afternoon", "evening", "night"}

\* C25: a time_period selects the same hours at the three places that
\* filter by it, 'all' selects every hour, and every hour belongs to
\* exactly one of the five named periods at each place.
C25_TimePeriodsAreFixed ==
    ret.fn = "time_period" =>
       /\ ret.traffic_sql = ret.traffic_patterns
       /\ ret.traffic_sql = ret.temporal_patterns
       /\ call.time_period = "all" => ret.traffic_sql
       /\ Cardinality({p \in NamedPeriods :
                          call.hour \in TrafficSqlHours(p)}) = 1
       /\ Cardinality({p \in NamedPeriods :
                          call.hour \in TrafficPatternsHours(p)}) = 1
       /\ Cardinality({p \in NamedPeriods :
                          call.hour \in TemporalBucketHours(p)}) = 1

\* the apartment of the earliest sample of pid that has one, else NullId
EarliestHome(samples, pid) ==
    LET with == {r \in samples :
                    r.participantid = pid /\ r.apartmentid # NullId}
    IN IF with = {} THEN NullId
       ELSE (CHOOSE r \in with :
                \A q \in with : r.timestamp <= q.timestamp).apartmentid

\* C26: the home of a participant is the apartment of the participant's
\* earliest status sample that has an apartment, and area_characteristics
\* and participant_routines use the same home.
C26_HomeIsFirstApartment ==
    ret.fn = "home" =>
       /\ ret.area_characteristics = EarliestHome(call.samples, call.pid)
       /\ ret.participant_routines = ret.area_characteristics

ThemeValues(i) == ret.results.data[i].values

\* the sum of the numerators of the values of row i
RECURSIVE SumNumerators(_, _)
SumNumerators(i, cats) ==
    IF cats = {} THEN 0
    ELSE LET c == CHOOSE x \in cats : TRUE
         IN ThemeValues(i)[c][1] + SumNumerators(i, cats \ {c})

\* C28: the periods of theme_river ascend without duplicates, the data has
\* one row per period with a value for every category, 0 where the query
\* has no row; with normalize the values of a period with a positive total
\* lie between 0 and 100 and add up to 100, without it, and in a period
\* with total 0, the values are those of the query.
C28_ThemeRiverTable ==
    ret.fn = "theme_river" =>
       LET out == ret.results
           n == Len(out.periods)
           rows(p) == {r \in call.data : r.period = p}
       IN /\ \A i, j \in 1..n : i < j => out.periods[i] < out.periods[j]
          /\ {out.periods[i] : i \in 1..n} = {r.period : r \in call.data}
          /\ out.categories = {r.category : r \in call.data}
          /\ DOMAIN out.data = 1..n
          /\ \A i \in 1..n :
                LET p == out.periods[i]
                    total == SumField(rows(p), "value")
                IN /\ out.data[i].period = p
                   /\ DOMAIN ThemeValues(i) = out.categories
                   /\ \A c \in out.categories :
                         (\A r \in rows(p) : r.category # c) =>
                            ThemeValues(i)[c] = <<0, 1>>
                   /\ (ParseBool(call.normalize) /\ total > 0) =>
                         /\ \A c \in out.categories :
                               /\ 0 <= ThemeValues(i)[c][1]
                               /\ ThemeValues(i)[c][1]
                                    <= 100 * ThemeValues(i)[c][2]
                         /\ \A r \in rows(p) :
                               ThemeValues(i)[r.category][2] = total
                         /\ SumNumerators(i, out.categories) = 100 * total
                   /\ ~(ParseBool(call.normalize) /\ total > 0) =>
                         \A r \in rows(p) :
                            ThemeValues(i)[r.category] = <<r.value, 1>>

\* a normalized table of two periods in which one period lacks a category
C28_Witness ==
    /\ ret.fn = "theme_river"
    /\ ParseBool(call.normalize)
    /\ Len(ret.results.periods) = 2
    /\ Cardinality(ret.results.categories) = 3
    /\ \E c \in ret.results.categories :
          /\ ThemeValues(1)[c] = <<0, 1>>
          /\ ThemeValues(2)[c] = <<300, 4>>

=============================================================================
